---- MODULE Spec2Model ----
(***************************************************************************)
(* Model of python-eufy-security: the P2P frame codec (p2p/lib32100.py),   *)
(* the remote and local discovery clients (p2p/discovery.py), the REST API *)
(* client with its inventory and observers (api.py), and the session       *)
(* acquisition policy of devices, cameras and stations (device.py,         *)
(* station.py, camera.py).                                                 *)
(*                                                                         *)
(* Every request of the program goes through API.request: the key-material *)
(* request of Station.connect and the two requests of                      *)
(* async_update_device_info are calls of the same coroutine a direct       *)
(* caller runs, on the same token state.                                   *)
(*                                                                         *)
(* Specifications:                                                         *)
(*   SpecCodec         - create_message / datagram_received on chosen      *)
(*                       frames                                            *)
(*   SpecDiscovery     - one remote and one local lookup, datagrams and    *)
(*                       timers (SpecDiscoveryFair: the timers run)        *)
(*   SpecAcquire       - callers running device operations with or without *)
(*                       a supplied session, on a logged-in API whose      *)
(*                       token does not expire and whose server does not   *)
(*                       answer 401                                        *)
(*   SpecApi           - one task calling request and async_authenticate,  *)
(*                       any server answer, the token expiring             *)
(*   SpecApiConcurrent - two tasks calling request concurrently            *)
(*   SpecInventory     - subscribe, unsubscribe, async_update_device_info  *)
(*                       on the same logged-in API                         *)
(*   Spec              - the whole program, nothing restricted             *)
(***************************************************************************)
EXTENDS Integers, Sequences, FiniteSets, TLC

VARIABLES
    \* ---- frame codec ----
    c_type,        \* 2-byte value of the message type handed to create_message
    c_payload,     \* payload handed to create_message
    c_msg,         \* result of create_message: [ok, msg]
    c_decoded,     \* what datagram_received handed to process_response
    c_pc,          \* "start" | "encoded" | "decoded"
    \* ---- remote discovery client (DiscoveryP2PClientProtocol) ----
    r_addresses,       \* self.addresses
    r_response_count,  \* self.response_count
    r_future,          \* self.on_lookup_complete
    r_timer,           \* "none" | "armed" | "fired": the timeout(1.5) task
    r_sent,            \* datagrams handed to transport.sendto
    r_hist,            \* history of the lookup (events observed so far)
    \* ---- local discovery client (LocalDiscoveryP2PClientProtocol) ----
    l_addresses,
    l_future,
    l_timer,
    l_sent,
    l_hist,
    n_datagrams,       \* inbound datagrams delivered so far (both clients)
    \* ---- session acquisition ----
    sessions,      \* every P2PSession object, by identity (index)
    callers,       \* per caller task: the running device operation
    dsk_requests,  \* number of get_dsk_keys requests sent to the REST API
    \* ---- REST API (API) ----
    a_retry_on_401,      \* self._retry_on_401
    a_token,             \* self._token
    a_token_expiration,  \* self._token_expiration against datetime.now():
                         \* "none" | "future" | "past"
    a_api_base,          \* self._api_base: "default" | "domain"
    a_running,           \* the task the event loop is running, 0: none
    a_stack,             \* per task: the frames of its coroutines
    a_call,              \* per task: what its current call did so far
    \* ---- inventory and observers (API, DeviceDict) ----
    u_listeners,   \* self._listeners
    u_devices,     \* self.devices: serial -> the Device object of the entry
    u_stations,    \* self.stations: serial -> the Station object of the entry
    u_pc,          \* async_update_device_info: "idle" | "devs" | "hubs"
    u_registered,  \* history: callbacks subscribed and not unsubscribed since
    u_event        \* history: the last operation and what it did

codecVars == <<c_type, c_payload, c_msg, c_decoded, c_pc>>
remoteVars == <<r_addresses, r_response_count, r_future, r_timer, r_sent, r_hist>>
localVars == <<l_addresses, l_future, l_timer, l_sent, l_hist>>
discVars == <<remoteVars, localVars, n_datagrams>>
acqVars == <<sessions, callers, dsk_requests>>
apiVars == <<a_retry_on_401, a_token, a_token_expiration, a_api_base,
             a_running, a_stack, a_call>>
invVars == <<u_listeners, u_devices, u_stations, u_pc, u_registered, u_event>>
vars == <<codecVars, discVars, acqVars, apiVars, invVars>>

-----------------------------------------------------------------------------
(* Bounds of the model *)

MaxPayloadLen == 2     \* enumerated payloads have 0..MaxPayloadLen bytes
MaxDatagrams == 4      \* inbound datagrams delivered to the discovery clients
MaxOps == 2            \* device operations the caller tasks run between them
MaxCalls == 2          \* calls of the REST API each task makes, one after another
MaxRequests == 4       \* HTTP requests sent on behalf of one call

-----------------------------------------------------------------------------
(* Bytes and integer encodings *)

Byte == 0..255

\* bytearray.append(x): ValueError unless 0 <= x < 256
IsByte(x) == x \in Byte

RECURSIVE ToBytesBE(_, _)
\* int.to_bytes(width, byteorder="big")
ToBytesBE(n, width) ==
    IF width = 0 THEN <<>>
    ELSE Append(ToBytesBE(n \div 256, width - 1), n % 256)

\* int.to_bytes(2, byteorder="little")
ToBytesLE2(n) == <<n % 256, (n \div 256) % 256>>

\* seq[::-1]
RECURSIVE Reverse(_)
Reverse(s) == IF s = <<>> THEN <<>> ELSE Append(Reverse(Tail(s)), Head(s))

\* data[from:], 0-based as in Python
SliceFrom(s, from) ==
    IF from >= Len(s) THEN <<>> ELSE SubSeq(s, from + 1, Len(s))

\* data[0:to]
SliceTo(s, to) == IF to >= Len(s) THEN s ELSE SubSeq(s, 1, to)

-----------------------------------------------------------------------------
(* Message types (p2p/types.py): a request and a response enumeration whose *)
(* values are 2-byte codes.                                                 *)

LOOKUP_WITH_KEY == <<241, 38>>
LOCAL_LOOKUP == <<241, 48>>
LOOKUP_ADDR == <<241, 64>>
LOCAL_LOOKUP_RESP == <<241, 65>>

P2PClientProtocolRequestMessageType == {LOOKUP_WITH_KEY, LOCAL_LOOKUP}
P2PClientProtocolResponseMessageType == {LOOKUP_ADDR, LOCAL_LOOKUP_RESP}

\* a 2-byte code that is a member of neither enumeration
UnknownTypeCode == <<241, 255>>

\* the error P2PClientProtocolResponseMessageType(code) fails with when the
\* code is no member of the enumeration
ProtocolError == "ProtocolError"

-----------------------------------------------------------------------------
(* Frame codec: BaseP2PClientProtocol *)

\* create_message without the range check of bytearray.append: the length
\* bytes are silently reduced modulo 256
create_message_wrapping(type_value, payload) ==
    [ok |-> TRUE,
     msg |-> type_value
             \o <<(Len(payload) \div 256) % 256, Len(payload) % 256>>
             \o payload]

\* create_message that leaves the length prefix out of the frame
create_message_no_length(type_value, payload) ==
    [ok |-> TRUE, msg |-> type_value \o payload]

\* create_message(msg_type, payload): msg_type.value, then
\* floor(len/256) and len % 256 appended as bytes, then the payload.
\* bytearray.append raises ValueError when floor(len/256) > 255.
create_message(type_value, payload) ==
    LET payload_size == Len(payload)
        hi == payload_size \div 256
        lo == payload_size % 256
    IN  IF IsByte(hi) /\ IsByte(lo)
        THEN [ok |-> TRUE, msg |-> type_value \o <<hi, lo>> \o payload]
        ELSE [ok |-> FALSE, msg |-> <<>>]

\* datagram_received that strips the length prefix together with the type
decode_skipping_length(data) ==
    IF SliceTo(data, 2) \in P2PClientProtocolResponseMessageType
    THEN [ok |-> TRUE, msg_type |-> SliceTo(data, 2), payload |-> SliceFrom(data, 4)]
    ELSE [ok |-> FALSE, msg_type |-> <<>>, payload |-> <<>>]

\* datagram_received that takes any two bytes for a response type
decode_accepting_any(data) ==
    [ok |-> TRUE, msg_type |-> SliceTo(data, 2), payload |-> SliceFrom(data, 2)]

\* datagram_received, lines 24-25: the type is looked up in the response
\* enumeration from data[0:2] (the lookup fails when it is no member), the
\* payload is data[2:]
decode(data) ==
    IF SliceTo(data, 2) \in P2PClientProtocolResponseMessageType
    THEN [ok |-> TRUE, msg_type |-> SliceTo(data, 2), payload |-> SliceFrom(data, 2)]
    ELSE [ok |-> FALSE, msg_type |-> <<>>, payload |-> <<>>]

-----------------------------------------------------------------------------
(* Inputs of the codec specification *)

PayloadBytes == {0, 1, 255}

\* payload lengths around the one-byte and two-byte limits of the length field
LongLengths == {255, 256, 65535, 65536, 65537}

RECURSIVE SeqsUpTo(_, _)
SeqsUpTo(S, n) ==
    IF n = 0 THEN {<<>>}
    ELSE LET shorter == SeqsUpTo(S, n - 1)
         IN  shorter \cup {Append(q, x) : q \in shorter, x \in S}

Payloads ==
    SeqsUpTo(PayloadBytes, MaxPayloadLen)
        \cup {[i \in 1..n |-> 0] : n \in LongLengths}

MessageTypeValues ==
    P2PClientProtocolRequestMessageType \cup P2PClientProtocolResponseMessageType

NoFrame == [ok |-> FALSE, msg |-> <<>>]
NothingDecoded == [ok |-> FALSE, msg_type |-> <<>>, payload |-> <<>>]

CodecIdle ==
    /\ c_type = LOOKUP_WITH_KEY
    /\ c_payload = <<>>
    /\ c_msg = NoFrame
    /\ c_decoded = NothingDecoded
    /\ c_pc = "start"

InitCodec ==
    /\ c_type \in MessageTypeValues
    /\ c_payload \in Payloads
    /\ c_msg = NoFrame
    /\ c_decoded = NothingDecoded
    /\ c_pc = "start"

\* the caller builds a frame: create_message(msg_type, payload)
CodecEncode ==
    /\ c_pc = "start"
    /\ c_msg' = create_message(c_type, c_payload)
    /\ c_pc' = "encoded"
    /\ UNCHANGED <<c_type, c_payload, c_decoded>>

\* the frame comes back as a datagram: datagram_received(data, addr) hands
\* (msg_type, payload) to process_response, or the type lookup fails
CodecDecode ==
    /\ c_pc = "encoded"
    /\ c_msg.ok
    /\ c_decoded' = decode(c_msg.msg)
    /\ c_pc' = "decoded"
    /\ UNCHANGED <<c_type, c_payload, c_msg>>

-----------------------------------------------------------------------------
(* Discovery clients: p2p/discovery.py *)

\* number of LOOKUP_ADDR responses after which the remote client bails early
ExpectedResponses == 2

\* UDP port the local lookup is sent to
LocalLookupPort == 32108

Dash == 45      \* ord("-")
Zero == 48      \* ord("0")

\* str.split("-") on a string given as its sequence of character codes
RECURSIVE Split(_, _)
Split(s, sep) ==
    IF \A i \in 1..Len(s) : s[i] # sep THEN <<s>>
    ELSE LET k == CHOOSE i \in 1..Len(s) : s[i] = sep /\ \A j \in 1..(i - 1) : s[j] # sep
         IN  <<SubSeq(s, 1, k - 1)>> \o Split(SubSeq(s, k + 1, Len(s)), sep)

\* int(digits) for a string of decimal digits
RECURSIVE ParseInt(_)
ParseInt(digits) ==
    IF digits = <<>> THEN 0
    ELSE 10 * ParseInt(SubSeq(digits, 1, Len(digits) - 1)) + (digits[Len(digits)] - Zero)

\* connection_made, lines 22-35: the LOOKUP_WITH_KEY payload
\* connection_made that writes the bound port most significant byte first
LookupPayload_port_big_endian(p2p_did, key, sockname) ==
    LET p2p_did_components == Split(p2p_did, Dash)
    IN  p2p_did_components[1]
        \o ToBytesBE(ParseInt(p2p_did_components[2]), 5)
        \o p2p_did_components[3]
        \o <<0, 0, 0, 0, 0>>
        \o ToBytesBE(sockname[2], 2)
        \o Reverse(sockname[1])
        \o <<0, 0, 0, 0, 0, 0, 0, 0, 2, 4, 0, 0>>
        \o key
        \o <<0, 0, 0, 0>>

LookupPayload(p2p_did, key, sockname) ==
    LET p2p_did_components == Split(p2p_did, Dash)
        ip == sockname[1]
        port == sockname[2]
    IN  p2p_did_components[1]
        \o ToBytesBE(ParseInt(p2p_did_components[2]), 5)
        \o p2p_did_components[3]
        \o <<0, 0, 0, 0, 0>>
        \o ToBytesLE2(port)
        \o Reverse(ip)
        \o <<0, 0, 0, 0, 0, 0, 0, 0, 2, 4, 0, 0>>
        \o key
        \o <<0, 0, 0, 0>>

\* process_response that reads the port as a big-endian number
ParseCandidate_big_endian(payload) ==
    <<<<payload[10], payload[9], payload[8], payload[7]>>, payload[5] * 256 + payload[6]>>

\* process_response that keeps the wire order of the address octets
ParseCandidate_wire_order(payload) ==
    <<<<payload[7], payload[8], payload[9], payload[10]>>, payload[6] * 256 + payload[5]>>

\* process_response, lines 56-57 (Python indexes from 0):
\* port = payload[5] * 256 + payload[4]; ip = payload[9].payload[8].payload[7].payload[6]
ParseCandidate(payload) ==
    <<<<payload[10], payload[9], payload[8], payload[7]>>, payload[6] * 256 + payload[5]>>

\* payload[9] raises IndexError on a payload of fewer than 10 bytes
CandidateReadable(payload) == Len(payload) >= 10

\* asyncio.Future: the unresolved future of a lookup
PendingFuture == [done |-> FALSE, result |-> "unset"]

\* Future.set_result(self.addresses): the future keeps a reference to the
\* list object self.addresses (not a copy); on a future that is already done
\* it raises InvalidStateError
set_result(fut) ==
    IF fut.done
    THEN [fut |-> fut, exc |-> "InvalidStateError", called |-> TRUE]
    ELSE [fut |-> [done |-> TRUE, result |-> "self.addresses"],
          exc |-> "none", called |-> TRUE]

\* the list a caller reads from the future: the addresses list itself
FutureResult(fut, addresses) ==
    IF fut.result = "self.addresses" THEN addresses ELSE <<>>

\* return_candidates without the done() test
return_candidates_unguarded(fut) == set_result(fut)

\* return_candidates that does nothing
return_candidates_never(fut) == [fut |-> fut, exc |-> "none", called |-> FALSE]

\* return_candidates that stores a fresh empty list whenever it is called
return_candidates_reset(fut) ==
    [fut |-> [done |-> TRUE, result |-> "new list"], exc |-> "none", called |-> TRUE]

\* DiscoveryP2PClientProtocol.return_candidates
return_candidates(fut) ==
    IF ~fut.done THEN set_result(fut)
    ELSE [fut |-> fut, exc |-> "none", called |-> FALSE]

\* LocalDiscoveryP2PClientProtocol.return_candidates without the done() test
local_return_candidates_unguarded(fut) == set_result(fut)

\* LocalDiscoveryP2PClientProtocol.return_candidates
local_return_candidates(fut) ==
    IF ~fut.done THEN set_result(fut)
    ELSE [fut |-> fut, exc |-> "none", called |-> FALSE]

\* history kept beside a lookup: calls of set_result, exceptions raised out of
\* the callbacks, what resolved the lookup, the content of the list when it
\* was stored in the future, and the candidates the well-formed responses
\* carried (as sent, before encoding)
NoHistory ==
    [set_result_calls |-> 0, raised |-> {}, resolved_by |-> "none",
     snapshot |-> <<>>, received |-> <<>>,
     last |-> [n |-> 0, data |-> <<>>, error |-> "none"]]

\* the history after datagram_received(data, addr) was called once more:
\* the datagram and the exception the call ended with
Delivered(hist, n, data, error) ==
    [hist EXCEPT !.last = [n |-> n, data |-> data, error |-> error],
                 !.raised = IF error = "none" THEN @ ELSE @ \cup {error}]

\* the history after a callback ran return_candidates with outcome rc
Resolved(hist, rc, by, list) ==
    [hist EXCEPT
        !.set_result_calls = @ + (IF rc.called THEN 1 ELSE 0),
        !.raised = IF rc.exc = "none" THEN @ ELSE @ \cup {rc.exc},
        !.resolved_by = IF rc.called /\ rc.exc = "none" THEN by ELSE @,
        !.snapshot = IF rc.called /\ rc.exc = "none" THEN list ELSE @]

-----------------------------------------------------------------------------
(* Inputs of the discovery specification *)

\* "AB-00001-CD" and the key "k" as character codes
DeviceDid == <<65, 66, 45, 48, 48, 48, 48, 49, 45, 67, 68>>
DeviceKey == <<107>>

\* local socket names (ip, port) the lookup socket may be bound to
SockNames == {<<<<10, 0, 0, 5>>, 40000>>, <<<<192, 168, 1, 2>>, 258>>}

RelayAddr == <<<<34, 235, 4, 153>>, 32100>>
BroadcastTarget == <<192, 168, 1, 255>>

\* the (ip, port) candidates the relay may report
Candidates == {<<<<192, 168, 1, 10>>, 32108>>, <<<<203, 0, 113, 7>>, 258>>}

\* sockets answering a local lookup
LocalSenders == {<<<<192, 168, 1, 10>>, 32108>>, <<<<192, 168, 1, 11>>, 32108>>}

\* a LOOKUP_ADDR datagram as the relay puts it on the wire: type, 2 length
\* bytes, 2 bytes address family, port little-endian, address octets reversed,
\* 8 bytes of padding
LookupAddrDatagram(cand) ==
    LOOKUP_ADDR \o <<0, 16>> \o <<0, 2>> \o ToBytesLE2(cand[2]) \o Reverse(cand[1])
        \o <<0, 0, 0, 0, 0, 0, 0, 0>>

\* a LOOKUP_ADDR datagram cut off before the address
ShortLookupAddrDatagram == LOOKUP_ADDR \o <<0, 4>> \o <<0, 2>> \o <<108, 125>>

LocalLookupRespDatagram == LOCAL_LOOKUP_RESP \o <<0, 0>>

UnknownDatagram == UnknownTypeCode \o <<0, 0>>

InitRemote ==
    /\ r_addresses = <<>>
    /\ r_response_count = 0
    /\ r_future = PendingFuture
    /\ r_timer = "none"
    /\ r_sent = <<>>
    /\ r_hist = NoHistory

InitLocal ==
    /\ l_addresses = <<>>
    /\ l_future = PendingFuture
    /\ l_timer = "none"
    /\ l_sent = <<>>
    /\ l_hist = NoHistory

InitDiscovery == InitRemote /\ InitLocal /\ n_datagrams = 0

-----------------------------------------------------------------------------
(* Remote discovery: DiscoveryP2PClientProtocol *)

\* connection_made(transport, addr): send the LOOKUP_WITH_KEY frame to the
\* relay and create the timeout(1.5) task
RemoteConnectionMade ==
    /\ r_timer = "none"
    /\ \E sockname \in SockNames :
          r_sent' = Append(r_sent,
                [data |-> create_message(LOOKUP_WITH_KEY,
                              LookupPayload(DeviceDid, DeviceKey, sockname)).msg,
                 addr |-> RelayAddr,
                 sockname |-> sockname])
    /\ r_timer' = "armed"
    /\ UNCHANGED <<r_addresses, r_response_count, r_future, r_hist>>

\* timeout(seconds): the sleep is over, return_candidates()
RemoteTimeout ==
    /\ r_timer = "armed"
    /\ LET rc == return_candidates(r_future)
       IN  /\ r_future' = rc.fut
           /\ r_hist' = Resolved(r_hist, rc, "timer", r_addresses)
    /\ r_timer' = "fired"
    /\ UNCHANGED <<r_addresses, r_response_count, r_sent>>

\* a remote client that bails out on every response
EnoughResponses_any(response_count) == TRUE

\* process_response, line 63: `if self.response_count == 2:`
EnoughResponses(response_count) == response_count = ExpectedResponses

\* process_response, line 55: `if msg_type ==
\* P2PClientProtocolResponseMessageType.LOOKUP_ADDR:`
IsLookupAddr(msg_type) == msg_type = LOOKUP_ADDR

\* datagram_received(data, addr) followed by process_response; `carried` is
\* the candidate the sender encoded in the datagram, if any
RemoteDatagram(data, addr, carried) ==
    /\ r_timer # "none"
    /\ n_datagrams < MaxDatagrams
    /\ n_datagrams' = n_datagrams + 1
    /\ LET d == decode(data)
           n == n_datagrams + 1
       IN  IF ~d.ok
           THEN \* the enumeration lookup raised
                /\ r_hist' = Delivered(r_hist, n, data, ProtocolError)
                /\ UNCHANGED <<r_addresses, r_response_count, r_future>>
           ELSE IF ~IsLookupAddr(d.msg_type)
           THEN /\ r_hist' = Delivered(r_hist, n, data, "none")
                /\ UNCHANGED <<r_addresses, r_response_count, r_future>>
           ELSE IF ~CandidateReadable(d.payload)
           THEN /\ r_hist' = Delivered(r_hist, n, data, "IndexError")
                /\ UNCHANGED <<r_addresses, r_response_count, r_future>>
           ELSE LET addresses == Append(r_addresses, ParseCandidate(d.payload))
                    count == r_response_count + 1
                    hist == [Delivered(r_hist, n, data, "none")
                                EXCEPT !.received = @ \o carried]
                IN  /\ r_addresses' = addresses
                    /\ r_response_count' = count
                    /\ IF EnoughResponses(count)
                       THEN LET rc == return_candidates(r_future)
                            IN  /\ r_future' = rc.fut
                                /\ r_hist' = Resolved(hist, rc, "responses", addresses)
                       ELSE /\ r_future' = r_future
                            /\ r_hist' = hist
    /\ UNCHANGED <<r_timer, r_sent>>

RemoteReceiveLookupAddr ==
    \E cand \in Candidates :
        RemoteDatagram(LookupAddrDatagram(cand), RelayAddr, <<cand>>)

RemoteReceiveOther ==
    \E data \in {ShortLookupAddrDatagram, LocalLookupRespDatagram, UnknownDatagram} :
        RemoteDatagram(data, RelayAddr, <<>>)

-----------------------------------------------------------------------------
(* Local discovery: LocalDiscoveryP2PClientProtocol *)

\* connection_made(transport): send the LOCAL_LOOKUP frame to the target and
\* create the timeout(1.5) task
LocalConnectionMade ==
    /\ l_timer = "none"
    /\ l_sent' = Append(l_sent,
            [data |-> create_message(LOCAL_LOOKUP, <<0, 0>>).msg,
             addr |-> <<BroadcastTarget, LocalLookupPort>>])
    /\ l_timer' = "armed"
    /\ UNCHANGED <<l_addresses, l_future, l_hist>>

LocalTimeout ==
    /\ l_timer = "armed"
    /\ LET rc == local_return_candidates(l_future)
       IN  /\ l_future' = rc.fut
           /\ l_hist' = Resolved(l_hist, rc, "timer", l_addresses)
    /\ l_timer' = "fired"
    /\ UNCHANGED <<l_addresses, l_sent>>

\* a local client that takes every response for a LOCAL_LOOKUP_RESP
IsLocalLookupResp_any(msg_type) == TRUE

\* process_response, line 100: `if msg_type ==
\* P2PClientProtocolResponseMessageType.LOCAL_LOOKUP_RESP:`
IsLocalLookupResp(msg_type) == msg_type = LOCAL_LOOKUP_RESP

\* datagram_received(data, addr) followed by process_response
LocalDatagram(data, addr) ==
    /\ l_timer # "none"
    /\ n_datagrams < MaxDatagrams
    /\ n_datagrams' = n_datagrams + 1
    /\ LET d == decode(data)
           n == n_datagrams + 1
       IN  IF ~d.ok
           THEN /\ l_hist' = Delivered(l_hist, n, data, ProtocolError)
                /\ UNCHANGED <<l_addresses, l_future>>
           ELSE IF ~IsLocalLookupResp(d.msg_type)
           THEN /\ l_hist' = Delivered(l_hist, n, data, "none")
                /\ UNCHANGED <<l_addresses, l_future>>
           ELSE LET addresses == Append(l_addresses, addr)
                    hist == [Delivered(l_hist, n, data, "none")
                                EXCEPT !.received = Append(@, addr)]
                    rc == local_return_candidates(l_future)
                IN  /\ l_addresses' = addresses
                    /\ l_future' = rc.fut
                    /\ l_hist' = Resolved(hist, rc, "responses", addresses)
    /\ UNCHANGED <<l_timer, l_sent>>

LocalReceiveResp ==
    \E addr \in LocalSenders : LocalDatagram(LocalLookupRespDatagram, addr)

LocalReceiveOther ==
    \E data \in {LookupAddrDatagram(<<<<192, 168, 1, 10>>, 32108>>), UnknownDatagram} :
        LocalDatagram(data, <<<<192, 168, 1, 10>>, 32108>>)

-----------------------------------------------------------------------------
(* REST API: api.py *)

NoToken == 0               \* self._token = None, no x-auth-token header
Tokens == {1, 2}           \* the auth_token values a login response may carry
Callers == {1, 2}          \* caller tasks running device operations
UpdateTask == 3            \* the task that calls async_update_device_info
ApiTasks == {4}            \* tasks that call the API
NoTask == 0

\* the tasks of the event loop: the callers of device operations, the tasks
\* that call the API and the task that updates the inventory
Tasks == 1..5

LoginEndpoint == "passport/login"
DataEndpoint == "app/get_devs_list"
HubsEndpoint == "app/get_hub_list"
KeysEndpoint == "app/equipment/get_dsk_keys"

\* What the server may answer. "ok": a success status and a body with code 0
\* (the login body carries data.auth_token, data.token_expires_at and, or not,
\* data.domain); "401"; "500": another error status; "500 401": another error
\* status with a reason phrase that holds the characters 401; "empty": a
\* success status with an empty body; "credentials": a success status and a
\* body with the code of a bad email or password; "code": a success status
\* and a body with another non-zero code
\* token_expires_at is the timestamp of the login body as the expiry test of
\* line 144 finds it when the token is next used: "future" (later than
\* datetime.now()) or "past" (reached)
NoData ==
    [status |-> "none", auth_token |-> NoToken, token_expires_at |-> "none",
     domain |-> FALSE]

Responses(endpoint) ==
    (IF endpoint = LoginEndpoint
     THEN [status : {"ok"}, auth_token : Tokens,
           token_expires_at : {"future", "past"}, domain : BOOLEAN]
     ELSE {[NoData EXCEPT !.status = "ok"]})
    \cup {[NoData EXCEPT !.status = st] :
                st \in {"401", "500", "500 401", "empty", "credentials", "code"}}

\* resp.raise_for_status() raises a ClientError: the status is 400 or above
HttpError(status) == status \in {"401", "500", "500 401"}

\* the error raise_error(data) raises for a body with a non-zero code
raise_error(data) ==
    IF data.status = "credentials" THEN "InvalidCredentialsError" ELSE "DomainError"

\* request, line 171: `"401" in str(err)`; the text of the error holds the
\* status and the reason phrase of the response
Mentions401(status) == status \in {"401", "500 401"}

\* a frame of API.request(method, endpoint, headers=headers, json=json).
\* why: what the request is for ("call": the caller's own, "refresh": the
\* login of an expired token, "reauth": the login after a 401, "resend": a
\* request sent again); of: the request a re-sent one repeats; at: the
\* position of the frame's request among the requests of the call
RequestFrame(endpoint, headers) ==
    [fn |-> "request", endpoint |-> endpoint, headers |-> headers,
     pc |-> "entry", data |-> NoData, why |-> "call", of |-> 0, at |-> 0,
     err |-> "none"]

\* a frame of API.async_authenticate()
AuthFrame ==
    [fn |-> "async_authenticate", endpoint |-> LoginEndpoint, headers |-> NoToken,
     pc |-> "entry", data |-> NoData, why |-> "call", of |-> 0, at |-> 0,
     err |-> "none"]

Top(stack) == stack[Len(stack)]
SetTop(stack, frame) == [stack EXCEPT ![Len(stack)] = frame]
Pop(stack) == SubSeq(stack, 1, Len(stack) - 1)

\* what is known of a call: the requests sent and the answers they got, in
\* order, the re-authentications after a 401, the refreshes of an expired
\* token, the re-sends of a request, and how the call ended; granted: the
\* auth_token of each answer, and expires: its token_expires_at; expired and had: whether the token had expired,
\* and the stored token, when the call was made
NoCall ==
    [n |-> 0, kind |-> "none", sent |-> <<>>, responses |-> <<>>,
     reauths |-> 0, refreshes |-> 0, resends |-> 0, outcome |-> "none",
     granted |-> <<>>, expires |-> <<>>, expired |-> FALSE, had |-> NoToken]

\* API.__init__, lines 21-33
InitApi ==
    /\ a_retry_on_401 = FALSE
    /\ a_token = NoToken
    /\ a_token_expiration = "none"
    /\ a_api_base = "default"
    /\ a_running = NoTask
    /\ a_stack = [t \in Tasks |-> <<>>]
    /\ a_call = [t \in Tasks |-> NoCall]

\* the API object after async_login (lines 208-213 of api.py): a login
\* succeeded and async_authenticate stored its token and expiration
ApiLoggedIn ==
    /\ a_retry_on_401 = FALSE
    /\ a_token = 1
    /\ a_token_expiration = "future"
    /\ a_api_base = "default"
    /\ a_running = NoTask
    /\ a_stack = [t \in Tasks |-> <<>>]
    /\ a_call = [t \in Tasks |-> NoCall]

\* a request handler that re-authenticates on every 401
RetryExhausted_never(retry_on_401) == FALSE

\* request, line 172: `if self._retry_on_401:`
RetryExhausted(retry_on_401) == retry_on_401

\* the calls a task makes on the API object itself; "connect" and "update"
\* are the requests Station.connect and async_update_device_info await
DirectCalls == {"request", "async_authenticate"}

\* a coroutine of task t awaits self._api.request("post", endpoint, ...):
\* station.py 38-40, api.py 78 and 82
AwaitRequest(t, kind, endpoint) ==
    /\ a_stack' = [a_stack EXCEPT ![t] = <<RequestFrame(endpoint, NoToken)>>]
    /\ a_call' = [a_call EXCEPT ![t] =
          [NoCall EXCEPT !.n = a_call[t].n, !.kind = kind, !.outcome = "running",
                         !.expired = (a_token_expiration = "past"),
                         !.had = a_token]]
    /\ a_running' = t
    /\ UNCHANGED <<a_retry_on_401, a_token, a_token_expiration, a_api_base>>

\* the request a coroutine of task t awaits has returned its data, and the
\* task runs
Returned(t) ==
    /\ a_running = t
    /\ Len(a_stack[t]) = 1
    /\ a_stack[t][1].pc = "return"

\* a task calls api.request(...) for a data endpoint, or
\* api.async_authenticate() as async_login does
ApiCall(t) ==
    /\ a_running = NoTask
    /\ a_stack[t] = <<>>
    /\ a_call[t].n < MaxCalls
    /\ \E kind \in DirectCalls :
          /\ a_stack' = [a_stack EXCEPT ![t] =
                <<IF kind = "request"
                  THEN RequestFrame(DataEndpoint, NoToken)
                  ELSE AuthFrame>>]
          /\ a_call' = [a_call EXCEPT ![t] =
                [NoCall EXCEPT !.n = a_call[t].n + 1, !.kind = kind,
                               !.outcome = "running",
                               !.expired = (a_token_expiration = "past"),
                               !.had = a_token]]
    /\ a_running' = t
    /\ UNCHANGED <<a_retry_on_401, a_token, a_token_expiration, a_api_base>>

\* an async_authenticate that takes every token for one that lasts
TokenExpiration_lasting(data) == "future"

\* async_authenticate, lines 63-65: `self._token_expiration =
\* datetime.fromtimestamp(auth_resp["data"]["token_expires_at"])`
TokenExpiration(data) == data.token_expires_at

\* a request that never finds the token expired
Expired_never(token_expiration) == FALSE

\* request, line 144: `self._token_expiration and
\* datetime.now() >= self._token_expiration`
Expired(token_expiration) == token_expiration = "past"

\* a request that keeps a token its headers already carry
HeadersToken_keep(headers, token) == IF headers # NoToken THEN headers ELSE token

\* request, lines 154-155: `if self._token: headers["x-auth-token"] = self._token`
HeadersToken(headers, token) == IF token # NoToken THEN token ELSE headers

\* request, lines 144-148: a token that has expired is dropped and
\* async_authenticate is awaited before anything is sent
RequestEntry(t) ==
    /\ a_running = t
    /\ a_stack[t] # <<>>
    /\ Top(a_stack[t]).fn = "request"
    /\ Top(a_stack[t]).pc = "entry"
    /\ IF Expired(a_token_expiration)
       THEN /\ a_token' = NoToken
            /\ a_token_expiration' = "none"
            /\ a_stack' = [a_stack EXCEPT ![t] =
                  Append(SetTop(@, [Top(@) EXCEPT !.pc = "refresh"]),
                         [AuthFrame EXCEPT !.why = "refresh"])]
            /\ a_call' = [a_call EXCEPT ![t].refreshes = @ + 1]
       ELSE /\ a_stack' = [a_stack EXCEPT ![t] = SetTop(@, [Top(@) EXCEPT !.pc = "send"])]
            /\ UNCHANGED <<a_token, a_token_expiration, a_call>>
    /\ UNCHANGED <<a_retry_on_401, a_api_base, a_running>>

\* async_authenticate, lines 55-59: await self.request("post", "passport/login", ...)
AuthEntry(t) ==
    /\ a_running = t
    /\ a_stack[t] # <<>>
    /\ Top(a_stack[t]).fn = "async_authenticate"
    /\ Top(a_stack[t]).pc = "entry"
    /\ a_stack' = [a_stack EXCEPT ![t] =
          Append(SetTop(@, [Top(@) EXCEPT !.pc = "login"]),
                 [RequestFrame(LoginEndpoint, NoToken)
                    EXCEPT !.why = Top(a_stack[t]).why])]
    /\ UNCHANGED <<a_retry_on_401, a_token, a_token_expiration, a_api_base,
                   a_running, a_call>>

\* request, lines 150-159: the url is built from the api base, the token, if
\* there is one, is written into the headers, and the request goes out; the
\* task waits for the response
RequestSend(t) ==
    /\ a_running = t
    /\ a_stack[t] # <<>>
    /\ Top(a_stack[t]).fn = "request"
    /\ Top(a_stack[t]).pc = "send"
    /\ Len(a_call[t].sent) < MaxRequests
    /\ LET top == Top(a_stack[t])
           headers == HeadersToken(top.headers, a_token)
       IN  /\ a_stack' = [a_stack EXCEPT ![t] =
                 SetTop(@, [top EXCEPT !.pc = "http", !.headers = headers,
                                       !.at = Len(a_call[t].sent) + 1])]
           /\ a_call' = [a_call EXCEPT ![t].sent =
                 Append(@, [endpoint |-> top.endpoint, token |-> headers,
                            base |-> a_api_base, why |-> top.why, of |-> top.of])]
    /\ a_running' = NoTask
    /\ UNCHANGED <<a_retry_on_401, a_token, a_token_expiration, a_api_base>>

\* the responses whose status makes resp.raise_for_status() raise (line 161)
ErrorStatuses(endpoint) == {r \in Responses(endpoint) : HttpError(r.status)}

\* the responses with a success status: what `await resp.json()` may give
\* (line 162)
Bodies(endpoint) == {r \in Responses(endpoint) : ~HttpError(r.status)}

\* request raises err out of the `async with` block of lines 157-182: the
\* block is left through __aexit__ of the request context, an await
Raise(t, err, resp) ==
    /\ a_stack' = [a_stack EXCEPT ![t] =
          SetTop(@, [Top(@) EXCEPT !.pc = "exit", !.err = err])]
    /\ a_call' = [a_call EXCEPT ![t].responses = Append(@, resp.status),
                                ![t].granted = Append(@, resp.auth_token),
                                ![t].expires = Append(@, resp.token_expires_at)]
    /\ a_running' = NoTask
    /\ UNCHANGED <<a_retry_on_401, a_token, a_token_expiration, a_api_base>>

\* request, lines 157-161 and 170-182: the status of the response arrives
\* (`async with self._session.request(...) as resp` is entered) and
\* resp.raise_for_status() looks at it. A success status leaves the task
\* waiting for the body at `await resp.json(content_type=None)`; an error
\* status raises a ClientError, handled by lines 170-182
ResponseStatus(t) ==
    /\ a_running = NoTask
    /\ a_stack[t] # <<>>
    /\ Top(a_stack[t]).pc = "http"
    /\ \/ \* a success status: line 162 waits for the body
          /\ a_stack' = [a_stack EXCEPT ![t] = SetTop(@, [Top(@) EXCEPT !.pc = "json"])]
          /\ UNCHANGED <<a_retry_on_401, a_token, a_token_expiration, a_api_base,
                         a_running, a_call>>
       \/ \E resp \in ErrorStatuses(Top(a_stack[t]).endpoint) :
             IF Mentions401(resp.status)
             THEN IF RetryExhausted(a_retry_on_401)
                  THEN Raise(t, "InvalidCredentialsError", resp)
                  ELSE \* self._retry_on_401 = True; await self.async_authenticate()
                       /\ a_retry_on_401' = TRUE
                       /\ a_stack' = [a_stack EXCEPT ![t] =
                             Append(SetTop(@, [Top(@) EXCEPT !.pc = "reauth"]),
                                    [AuthFrame EXCEPT !.why = "reauth"])]
                       /\ a_call' = [a_call EXCEPT ![t].responses = Append(@, resp.status),
                                                   ![t].granted = Append(@, resp.auth_token),
                                                   ![t].expires = Append(@, resp.token_expires_at),
                                                   ![t].reauths = @ + 1]
                       /\ a_running' = t
                       /\ UNCHANGED <<a_token, a_token_expiration, a_api_base>>
             ELSE Raise(t, "RequestError", resp)

\* request, lines 162-169: the body arrives, `await resp.json(...)` returns
\* it; an empty body raises RequestError, a non-zero code makes
\* _raise_on_error raise, anything else is returned, through __aexit__ of the
\* request context
ResponseBody(t) ==
    /\ a_running = NoTask
    /\ a_stack[t] # <<>>
    /\ Top(a_stack[t]).pc = "json"
    /\ \E resp \in Bodies(Top(a_stack[t]).endpoint) :
          IF resp.status = "ok"
          THEN \* return data
               /\ a_stack' = [a_stack EXCEPT ![t] =
                     SetTop(@, [Top(@) EXCEPT !.pc = "exit", !.data = resp])]
               /\ a_call' = [a_call EXCEPT ![t].responses = Append(@, resp.status),
                                           ![t].granted = Append(@, resp.auth_token),
                                           ![t].expires = Append(@, resp.token_expires_at)]
               /\ UNCHANGED <<a_retry_on_401, a_token, a_token_expiration, a_api_base,
                              a_running>>
          ELSE IF resp.status = "empty"
          THEN Raise(t, "RequestError", resp)
          ELSE \* _raise_on_error(data): data["code"] is not 0
               Raise(t, raise_error(resp), resp)

\* an exception goes up the coroutines of a call: async_authenticate and the
\* refresh of line 148 do not handle it; a request that awaits a
\* re-authentication or a re-sent request (lines 176-179) is inside its
\* `async with` block and leaves it through __aexit__. Gives the stack with
\* the next frame that waits in __aexit__ on top, or <<>> when the exception
\* reaches the caller
RECURSIVE Unwind(_, _)
Unwind(stack, err) ==
    IF stack = <<>> THEN <<>>
    ELSE IF Top(stack).fn = "request" /\ Top(stack).pc \in {"reauth", "resend"}
    THEN SetTop(stack, [Top(stack) EXCEPT !.pc = "exit", !.err = err])
    ELSE Unwind(Pop(stack), err)

\* the exception of the request a coroutine of task t awaits leaves the last
\* `async with` block and reaches that coroutine
Failed(t) ==
    /\ a_running = NoTask
    /\ a_stack[t] # <<>>
    /\ Top(a_stack[t]).pc = "exit"
    /\ Top(a_stack[t]).err # "none"
    /\ Unwind(Pop(a_stack[t]), Top(a_stack[t]).err) = <<>>

\* request, lines 157-159: __aexit__ of the request context is over. The
\* value of `return data` is returned, or the exception goes on; what the
\* coroutine that awaits the outermost request does with the exception is
\* part of its own step
Exit(t) ==
    /\ a_running = NoTask
    /\ a_stack[t] # <<>>
    /\ Top(a_stack[t]).pc = "exit"
    /\ Failed(t) => a_call[t].kind \in DirectCalls
    /\ IF Top(a_stack[t]).err = "none"
       THEN /\ a_stack' = [a_stack EXCEPT ![t] = SetTop(@, [Top(@) EXCEPT !.pc = "return"])]
            /\ a_running' = t
            /\ UNCHANGED a_call
       ELSE LET rest == Unwind(Pop(a_stack[t]), Top(a_stack[t]).err)
            IN  /\ a_stack' = [a_stack EXCEPT ![t] = rest]
                /\ a_call' = [a_call EXCEPT ![t].outcome =
                      IF rest = <<>> THEN Top(a_stack[t]).err ELSE @]
                /\ a_running' = NoTask
    /\ UNCHANGED <<a_retry_on_401, a_token, a_token_expiration, a_api_base>>

\* a coroutine returns to the one that awaits it, which runs on to its next
\* await: async_authenticate stores the login data (lines 61-69), request
\* goes on to send (after a refresh), sends the request again (after a
\* re-authentication, lines 176-179) or returns what the re-sent request
\* returned, through __aexit__ of its own request context; the outermost
\* coroutine returns to the caller, and what a coroutine that awaits the
\* outermost request does with the data is part of its own step
Return(t) ==
    /\ a_running = t
    /\ a_stack[t] # <<>>
    /\ Top(a_stack[t]).pc = "return"
    /\ Returned(t) => a_call[t].kind \in DirectCalls
    /\ LET top == Top(a_stack[t])
           rest == Pop(a_stack[t])
       IN  IF rest = <<>>
           THEN /\ a_stack' = [a_stack EXCEPT ![t] = <<>>]
                /\ a_call' = [a_call EXCEPT ![t].outcome = "ok"]
                /\ a_running' = NoTask
                /\ UNCHANGED <<a_retry_on_401, a_token, a_token_expiration, a_api_base>>
           ELSE LET caller == Top(rest)
                IN  IF caller.fn = "async_authenticate"
                    THEN /\ a_retry_on_401' = FALSE
                         /\ a_token' = top.data.auth_token
                         /\ a_token_expiration' = TokenExpiration(top.data)
                         /\ a_api_base' = IF top.data.domain THEN "domain" ELSE a_api_base
                         /\ a_stack' = [a_stack EXCEPT ![t] =
                               SetTop(rest, [caller EXCEPT !.pc = "return"])]
                         /\ a_running' = t
                         /\ UNCHANGED a_call
                    ELSE IF caller.pc = "refresh"
                    THEN /\ a_stack' = [a_stack EXCEPT ![t] =
                               SetTop(rest, [caller EXCEPT !.pc = "send"])]
                         /\ a_running' = t
                         /\ UNCHANGED <<a_retry_on_401, a_token, a_token_expiration,
                                        a_api_base, a_call>>
                    ELSE IF caller.pc = "reauth"
                    THEN /\ a_stack' = [a_stack EXCEPT ![t] =
                               Append(SetTop(rest, [caller EXCEPT !.pc = "resend"]),
                                      [RequestFrame(caller.endpoint, caller.headers)
                                         EXCEPT !.why = "resend", !.of = caller.at])]
                         /\ a_call' = [a_call EXCEPT ![t].resends = @ + 1]
                         /\ a_running' = t
                         /\ UNCHANGED <<a_retry_on_401, a_token, a_token_expiration,
                                        a_api_base>>
                    ELSE \* caller.pc = "resend": line 177 returns the value
                         /\ a_stack' = [a_stack EXCEPT ![t] =
                               SetTop(rest, [caller EXCEPT !.pc = "exit",
                                                           !.data = top.data])]
                         /\ a_running' = NoTask
                         /\ UNCHANGED <<a_retry_on_401, a_token, a_token_expiration,
                                        a_api_base, a_call>>

\* time passes while no task runs: the expiration time of the token is reached
TokenExpires ==
    /\ a_running = NoTask
    /\ a_token_expiration = "future"
    /\ a_token_expiration' = "past"
    /\ UNCHANGED <<a_retry_on_401, a_token, a_api_base, a_running, a_stack, a_call>>

ApiIdle == InitApi

-----------------------------------------------------------------------------
(* Inventory and observers: API.async_update_device_info, API.subscribe,   *)
(* API.unsubscribe, API.dispatch, DeviceDict.update, Device.update          *)

MaxListeners == 2      \* longest list of listeners
MaxRecords == 1        \* longest list of records in a response

Callbacks == {1, 2}          \* the callables handed to subscribe
Serials == {"A", "B"}        \* device_sn / station_sn of the records
InfoValues == {0, 1}         \* the rest of a record (status, versions, ...)

Records == [sn : Serials, value : InfoValues]

\* the "data" of a response to get_devs_list / get_hub_list
RecordLists == SeqsUpTo(Records, MaxRecords)

\* an entry of a DeviceDict: obj tells the objects of one serial apart (0: no
\* entry, n: the n-th object made for the serial), device_info is the record
\* the object holds
NoEntry == [obj |-> 0, device_info |-> [sn |-> "", value |-> 0]]

\* the last operation: the callback of subscribe/unsubscribe, the records of
\* an update and the serials that had an entry before it, the calls made to
\* callbacks, the callbacks registered and the listener list before a
\* dispatch, and what the operation returned
NoEvent == [op |-> "none", cb |-> 0, records |-> <<>>, present |-> {},
            called |-> <<>>, registered |-> {}, listeners |-> <<>>,
            error |-> "none", returned |-> "None"]

Present(dict) == {sn \in Serials : dict[sn] # NoEntry}

InitInventory ==
    /\ u_listeners = <<>>
    /\ u_devices = [sn \in Serials |-> NoEntry]
    /\ u_stations = [sn \in Serials |-> NoEntry]
    /\ u_pc = "idle"
    /\ u_registered = {}
    /\ u_event = NoEvent

\* list.remove(x): the list without the first item equal to x
remove(list, x) ==
    LET i == CHOOSE k \in 1..Len(list) :
                 list[k] = x /\ \A j \in 1..(k - 1) : list[j] # x
    IN  SubSeq(list, 1, i - 1) \o SubSeq(list, i + 1, Len(list))

\* subscribe, lines 184-192: the callback is appended; the decorator line
\* `@callback` calls the parameter callback with the function remove_callback
\* and binds the name remove_callback to what the call returns, which
\* subscribe returns
subscribe(cb) ==
    /\ a_running = NoTask
    /\ Len(u_listeners) < MaxListeners
    /\ u_listeners' = Append(u_listeners, cb)
    /\ u_registered' = u_registered \cup {cb}
    /\ u_event' = [NoEvent EXCEPT !.op = "subscribe", !.cb = cb,
                                  !.called = <<[cb |-> cb, arg |-> "remove_callback"]>>,
                                  !.returned = "callback(remove_callback)"]
    /\ UNCHANGED <<u_devices, u_stations, u_pc>>

\* unsubscribe, lines 194-195: self._listeners.remove(callback); ValueError
\* when the callback is not in the list
unsubscribe(cb) ==
    /\ a_running = NoTask
    /\ IF \E k \in 1..Len(u_listeners) : u_listeners[k] = cb
       THEN /\ u_listeners' = remove(u_listeners, cb)
            /\ u_registered' = u_registered \ {cb}
            /\ u_event' = [NoEvent EXCEPT !.op = "unsubscribe", !.cb = cb]
       ELSE /\ u_event' = [NoEvent EXCEPT !.op = "unsubscribe", !.cb = cb,
                                          !.error = "ValueError"]
            /\ UNCHANGED <<u_listeners, u_registered>>
    /\ UNCHANGED <<u_devices, u_stations, u_pc>>

\* dispatch, lines 197-199: `for callback in self._listeners` reads the list
\* by position while the callbacks run; a callback of `unsubscribing` calls
\* unsubscribe on itself when it is called
RECURSIVE dispatch(_, _, _, _)
dispatch(listeners, i, unsubscribing, called) ==
    IF i > Len(listeners)
    THEN [listeners |-> listeners, called |-> called]
    ELSE LET cb == listeners[i]
         IN  dispatch(IF cb \in unsubscribing THEN remove(listeners, cb) ELSE listeners,
                      i + 1, unsubscribing,
                      Append(called, [cb |-> cb, arg |-> "api"]))

\* Device.update, device.py lines 105-106: self.device_info = device_info
Device_update(old_info, device_info) == device_info

\* DeviceDict.update(records). api.py imports the class from device.py (line
\* 9), where it is not defined; what update does here is what the tests of
\* the repository assert of it (tests/test_device.py 21-39, tests/test_api.py
\* 340-397): a record of a serial without an entry adds an entry, a record
\* of a serial with an entry updates the object of the entry, an entry whose
\* serial is not in the list stays
RECURSIVE DeviceDict_update(_, _)
DeviceDict_update(dict, records) ==
    IF records = <<>>
    THEN dict
    ELSE LET rec == Head(records)
         IN  IF dict[rec.sn] # NoEntry
             THEN DeviceDict_update(
                     [dict EXCEPT ![rec.sn].device_info = Device_update(@, rec)],
                     Tail(records))
             ELSE DeviceDict_update(
                     [dict EXCEPT ![rec.sn] = [obj |-> 1, device_info |-> rec]],
                     Tail(records))

\* the request a coroutine of task t awaited is over and its frames are
\* gone; the task goes on to its next await or ends
EndAwait(t) ==
    /\ a_stack' = [a_stack EXCEPT ![t] = <<>>]
    /\ a_call' = [a_call EXCEPT ![t] = [NoCall EXCEPT !.n = a_call[t].n]]
    /\ a_running' = NoTask
    /\ UNCHANGED <<a_retry_on_401, a_token, a_token_expiration, a_api_base>>

\* async_update_device_info, line 78: `await self.request("post",
\* "app/get_devs_list")`
UpdateStart ==
    /\ a_running = NoTask
    /\ a_stack[UpdateTask] = <<>>
    /\ u_pc = "idle"
    /\ u_pc' = "devs"
    /\ u_event' = [NoEvent EXCEPT !.op = "async_update_device_info"]
    /\ AwaitRequest(UpdateTask, "update", DataEndpoint)
    /\ UNCHANGED <<u_listeners, u_devices, u_stations, u_registered>>

\* lines 78-82: the request returns the device list (records: the "data" of
\* the body): devices.update, then `await self.request("post",
\* "app/get_hub_list")`
DevsResponse ==
    /\ u_pc = "devs"
    /\ Returned(UpdateTask)
    /\ \E records \in RecordLists :
          /\ u_devices' = DeviceDict_update(u_devices, records)
          /\ u_pc' = "hubs"
          /\ u_event' = [NoEvent EXCEPT !.op = "devices", !.records = records,
                                        !.present = Present(u_devices)]
    /\ AwaitRequest(UpdateTask, "update", HubsEndpoint)
    /\ UNCHANGED <<u_listeners, u_stations, u_registered>>

\* lines 82-85: the request returns the station list: stations.update and
\* self.dispatch(self)
HubsResponse ==
    /\ u_pc = "hubs"
    /\ Returned(UpdateTask)
    /\ u_pc' = "idle"
    /\ \E records \in RecordLists, unsubscribing \in SUBSET Callbacks :
          LET notified == dispatch(u_listeners, 1, unsubscribing, <<>>)
              left == {notified.called[k].cb : k \in 1..Len(notified.called)}
                         \cap unsubscribing
          IN  /\ u_stations' = DeviceDict_update(u_stations, records)
              /\ u_listeners' = notified.listeners
              /\ u_registered' = u_registered \ left
              /\ u_event' = [NoEvent EXCEPT !.op = "stations", !.records = records,
                                            !.present = Present(u_stations),
                                            !.called = notified.called,
                                            !.registered = u_registered,
                                            !.listeners = u_listeners]
    /\ EndAwait(UpdateTask)
    /\ UNCHANGED u_devices

\* lines 78 and 82: the request raises; async_update_device_info handles no
\* exception
UpdateFail ==
    /\ u_pc \in {"devs", "hubs"}
    /\ Failed(UpdateTask)
    /\ u_pc' = "idle"
    /\ u_event' = [NoEvent EXCEPT
          !.op = IF u_pc = "devs" THEN "devices" ELSE "stations",
          !.error = Top(a_stack[UpdateTask]).err]
    /\ EndAwait(UpdateTask)
    /\ UNCHANGED <<u_listeners, u_devices, u_stations, u_registered>>

-----------------------------------------------------------------------------
(* Session acquisition: device.py, station.py, camera.py *)

NoSession == 0             \* session=None

\* GuardMode values (types.py): AWAY, HOME, DISARMED, SCHEDULE, GEOFENCING
GuardModeValues == {0, 1, 63, 2, 47}

\* the objects an operation is called on; station_sn is device_info["station_sn"]
Targets ==
    [kind : {"station", "doorbell", "floodlight"}, station_sn : Serials]

\* station.py 121-140: the set_*_mode methods of Station and the GuardMode
\* each passes to set_guard_mode
ModeSetters ==
    [set_away_mode |-> 0, set_home_mode |-> 1, set_disarmed_mode |-> 63,
     set_schedule_mode |-> 2, set_geofencing_mode |-> 47]

\* the operations of each class, with their arguments: set_guard_mode takes
\* any GuardMode, a set_*_mode method takes none and passes its own
Operations(kind) ==
    IF kind = "station"
    THEN [name : {"set_guard_mode"}, arg : GuardModeValues]
         \cup {[name |-> n, arg |-> ModeSetters[n]] : n \in DOMAIN ModeSetters}
    ELSE IF kind = "doorbell"
    THEN [name : {"enable_osd"}, arg : {0, 1}]
    ELSE [name : {"enable_osd", "enable_manual_light"}, arg : {0, 1}]

\* the command each operation sends: <<method, channel, command type, value>>
CommandOf(kind, operation) ==
    IF operation.name = "set_guard_mode"
    THEN <<"async_send_command_with_int", 0, "CMD_SET_ARMING", operation.arg>>
    ELSE IF operation.name = "enable_manual_light"
    THEN <<"async_send_command_with_int_string", 0, "CMD_SET_FLOODLIGHT_MANUAL_SWITCH",
           IF operation.arg = 1 THEN 1 ELSE 0>>
    ELSE IF kind = "doorbell"
    THEN <<"async_send_command_with_int_string", 0, "CMD_SET_DEVS_OSD",
           IF operation.arg = 1 THEN 1 ELSE 0>>
    ELSE <<"async_send_command_with_int_string", 0, "CMD_SET_DEVS_OSD",
           IF operation.arg = 1 THEN 2 ELSE 1>>

\* P2PSession(station_serial, p2p_did, dsk_key, action_user_id): a new,
\* unconnected session bound to the station serial
NewSession(serial, owner) ==
    [serial |-> serial, owner |-> owner, state |-> "created", closes |-> 0]

\* P2PSession.valid_for(serial)
valid_for(session, serial) == session.serial = serial

\* async_establish_session that never takes the supplied session
ReuseSupplied_never(supplied, serial) == FALSE

\* async_establish_session that takes any supplied session
ReuseSupplied_any(supplied, serial) == supplied # NoSession

\* async_establish_session, first test (device.py 110, station.py 28):
\* `session and session.valid_for(serial)`
ReuseSupplied(supplied, serial) ==
    supplied # NoSession /\ valid_for(sessions[supplied], serial)

\* connect that takes the first entry of the response, whatever its serial
FirstMatch_any(items, serial) ==
    IF items = <<>> THEN 0 ELSE 1

\* connect, lines 41-42: the first item of dsk_keys whose station_sn is the
\* station's serial (0: the loop ends without a match)
FirstMatch(items, serial) ==
    IF \E i \in 1..Len(items) : items[i] = serial
    THEN CHOOSE i \in 1..Len(items) :
            items[i] = serial /\ \A j \in 1..(i - 1) : items[j] # serial
    ELSE 0

\* a scope exit that closes whatever session the block used
ScopeExitCloses_always(opened, outcome) == TRUE

\* a scope exit that closes only after a block that did not raise
ScopeExitCloses_no_finally(opened, outcome) == opened # NoSession /\ outcome = "ok"

\* the session is closed on scope exit exactly when connect opened it: the
\* only close() is the finally clause around connect's yield (station.py 50-53),
\* which runs for a normal and for an exceptional exit
ScopeExitCloses(opened, outcome) == opened # NoSession

\* a connect that closes the session before raising "Could not connect"
ClosesOnFailedConnect_always(outcome) == TRUE

\* connect, lines 49-57: close() is reached only through the finally clause
\* of the connected branch; the other exits of connect do not call it
ClosesOnFailedConnect(outcome) == FALSE

\* a lookup of the owning station that always succeeds
StationKnown_always(station_sn) == TRUE

\* device.py 114: `self.station_serial in self._api.stations`
StationKnown(station_sn) == station_sn \in Present(u_stations)

\* a connect that yields the session whatever connect() returned
IsConnected_ignored(outcome) == outcome # "raised"

\* station.py 49-50: `is_connected = await p2p_session.connect(addr)`,
\* `if is_connected:`
IsConnected(outcome) == outcome = "connected"

\* whether a get_dsk_keys response lists an entry for the serial
ListsKeyFor(items, serial) == serial \in {items[i] : i \in 1..Len(items)}

IdleCaller ==
    [pc |-> "idle", ops |-> 0,
     target |-> [kind |-> "station", station_sn |-> "A"],
     operation |-> [name |-> "set_guard_mode", arg |-> 0],
     supplied |-> NoSession, cur |-> NoSession, opened |-> NoSession,
     key_request |-> FALSE, key_listed |-> "unknown",
     connect |-> "none", body |-> "none",
     command |-> <<>>, err |-> "none", trace |-> <<>>]

\* an event of an operation, as the trace of the caller keeps it: what was
\* done ("keys": the key-material request, "connect", "send", "close"), on
\* which session, and the state the session was in
Event(ev, on, state) == [ev |-> ev, on |-> on, state |-> state]

\* what is left of an operation once it returned or raised: the locals of the
\* coroutine (target, operation, command, the yielded session) are gone
Finished(call, err) ==
    [IdleCaller EXCEPT
        !.pc = "done", !.ops = call.ops, !.supplied = call.supplied,
        !.opened = call.opened, !.key_request = call.key_request,
        !.key_listed = call.key_listed,
        !.connect = call.connect, !.body = call.body, !.err = err,
        !.trace = call.trace]

\* the caller holds a connected session bound to "A" and one bound to "B"
InitAcquire ==
    /\ sessions = <<[NewSession("A", "caller") EXCEPT !.state = "connected"],
                    [NewSession("B", "caller") EXCEPT !.state = "connected"]>>
    /\ callers = [c \in Callers |-> IdleCaller]
    /\ dsk_requests = 0

\* sessions the caller holds and may hand to an operation
CallerSessions == {i \in 1..Len(sessions) : sessions[i].owner = "caller"}

\* a device operation is called: async_establish_session(session) runs up to
\* its first suspension, or to the call of api.request in connect
Call(c) ==
    /\ a_running = NoTask
    /\ a_stack[c] = <<>>
    /\ callers[c].pc \in {"idle", "done"}
    \* the callers have called fewer than MaxOps operations between them
    /\ Cardinality({p \in Callers \X (1..MaxOps) : p[2] <= callers[p[1]].ops})
          < MaxOps
    /\ \E target \in Targets, supplied \in {NoSession} \cup CallerSessions :
       \E operation \in Operations(target.kind) :
          \* a Station object is an entry of api.stations
          /\ target.kind = "station" => target.station_sn \in Present(u_stations)
          /\ LET call == [IdleCaller EXCEPT
                              !.ops = callers[c].ops + 1,
                              !.target = target,
                              \* a set_*_mode method does nothing but `await
                              \* self.set_guard_mode(GuardMode.X, session)`
                              !.operation =
                                 IF operation.name \in DOMAIN ModeSetters
                                 THEN [name |-> "set_guard_mode",
                                       arg |-> operation.arg]
                                 ELSE operation,
                              !.supplied = supplied]
             IN  IF ReuseSupplied(supplied, target.station_sn)
                 THEN \* yield session
                      /\ callers' = [callers EXCEPT ![c] =
                            [call EXCEPT !.pc = "body", !.cur = supplied]]
                      /\ UNCHANGED apiVars
                 ELSE IF target.kind # "station" /\ ~StationKnown(target.station_sn)
                 THEN \* raise EufySecurityP2PError("Could not find station for
                      \* {self.name}"): the error names the device
                      /\ callers' = [callers EXCEPT ![c] =
                            [Finished(call, "EufySecurityP2PError: no station")
                                EXCEPT !.target = target]]
                      /\ UNCHANGED apiVars
                 ELSE \* connect(): await self._api.request(... get_dsk_keys ...)
                      /\ callers' = [callers EXCEPT ![c] = [call EXCEPT !.pc = "keys"]]
                      /\ AwaitRequest(c, "connect", KeysEndpoint)
    /\ UNCHANGED <<sessions, dsk_requests>>

\* api.py 157-159, for the request of station.py 38-40: a get_dsk_keys
\* request goes out
KeysSent(t) ==
    IF t \in Callers /\ Top(a_stack[t]).endpoint = KeysEndpoint
    THEN /\ dsk_requests' = dsk_requests + 1
         /\ callers' = [callers EXCEPT
               ![t].key_request = TRUE,
               ![t].trace = Append(@, Event("keys", NoSession, "none"))]
         /\ UNCHANGED sessions
    ELSE UNCHANGED acqVars

\* the station serials of the dsk_keys entries a response may list
KeyResponses ==
    {<<>>} \cup {<<s>> : s \in Serials} \cup {<<s, t>> : s \in Serials, t \in Serials}

\* the get_dsk_keys request failed: api.request raises, and neither connect
\* nor async_establish_session nor the operation handles the exception
KeysFail(c) ==
    /\ callers[c].pc = "keys"
    /\ Failed(c)
    /\ callers' = [callers EXCEPT ![c] = Finished(callers[c], Top(a_stack[c]).err)]
    /\ EndAwait(c)
    /\ UNCHANGED <<sessions, dsk_requests>>

\* api.request returns the get_dsk_keys response (items: the station serials
\* of its dsk_keys entries): connect runs its loop up to
\* `await p2p_session.connect(addr)` or to the for-else
KeysResponse(c) ==
    /\ callers[c].pc = "keys"
    /\ Returned(c)
    /\ \E items \in KeyResponses :
          LET serial == callers[c].target.station_sn
          IN  IF FirstMatch(items, serial) # 0
              THEN /\ sessions' = Append(sessions,
                                    NewSession(serial, "policy"))
                   /\ callers' = [callers EXCEPT
                            ![c].pc = "connecting",
                            ![c].opened = Len(sessions) + 1,
                            ![c].key_listed =
                                IF ListsKeyFor(items, serial) THEN "yes" ELSE "no"]
              ELSE /\ callers' = [callers EXCEPT ![c] =
                            Finished([callers[c] EXCEPT !.key_listed =
                                        IF ListsKeyFor(items, serial) THEN "yes" ELSE "no"],
                                     "EufySecurityP2PError: no discovery key")]
                   /\ UNCHANGED sessions
    /\ EndAwait(c)
    /\ UNCHANGED dsk_requests

\* p2p_session.connect(addr) returns True, returns False or raises
ConnectResult(c) ==
    /\ a_running = NoTask
    /\ callers[c].pc = "connecting"
    /\ \E outcome \in {"connected", "not connected", "raised"} :
          LET id == callers[c].opened
              closing == ClosesOnFailedConnect(outcome)
              established == outcome = "connected"
          IN  IF IsConnected(outcome)
              THEN \* yield p2p_session
                   /\ sessions' = [sessions EXCEPT
                            ![id].state = IF established THEN "connected" ELSE "failed"]
                   /\ callers' = [callers EXCEPT ![c].pc = "body", ![c].cur = id,
                                                 ![c].connect = outcome,
                                                 ![c].trace = Append(@,
                                                    Event("connect", id, sessions[id].state))]
              ELSE /\ sessions' = [sessions EXCEPT
                            ![id].state = IF closing THEN "closed" ELSE "failed",
                            ![id].closes = IF closing THEN @ + 1 ELSE @]
                   /\ callers' = [callers EXCEPT ![c] =
                            Finished([callers[c] EXCEPT !.connect = outcome,
                                        !.trace = Append(@,
                                            Event("connect", id, sessions[id].state))],
                                     IF outcome = "not connected"
                                     THEN "EufySecurityP2PError: could not connect"
                                     ELSE "ConnectError")]
    /\ UNCHANGED <<dsk_requests, apiVars>>

\* the scoped block starts: the command of the operation is handed to the
\* yielded session (await session.async_send_command_...)
SendCommand(c) ==
    /\ a_running = NoTask
    /\ callers[c].pc = "body"
    /\ callers' = [callers EXCEPT
          ![c].pc = "sending",
          ![c].command = CommandOf(callers[c].target.kind, callers[c].operation),
          ![c].trace = Append(@, Event("send", callers[c].cur,
                                       sessions[callers[c].cur].state))]
    /\ UNCHANGED <<sessions, dsk_requests, apiVars>>

\* the send returns or raises and the scope is left
CommandDone(c) ==
    /\ a_running = NoTask
    /\ callers[c].pc = "sending"
    /\ \E outcome \in {"ok", "raised"} :
          LET call == [callers[c] EXCEPT
                          !.body = outcome,
                          !.err = IF outcome = "raised" THEN "CommandError" ELSE "none"]
          IN  callers' = [callers EXCEPT ![c] =
                  IF ScopeExitCloses(call.opened, outcome)
                  THEN [call EXCEPT !.pc = "closing"]
                  ELSE Finished(call, call.err)]
    /\ UNCHANGED <<sessions, dsk_requests, apiVars>>

\* finally: await p2p_session.close(); the exception of the block, if any,
\* goes on to the caller
Close(c) ==
    /\ a_running = NoTask
    /\ callers[c].pc = "closing"
    /\ sessions' = [sessions EXCEPT ![callers[c].cur].closes = @ + 1,
                                    ![callers[c].cur].state = "closed"]
    /\ callers' = [callers EXCEPT ![c] =
          Finished([callers[c] EXCEPT !.trace = Append(@,
                        Event("close", callers[c].cur, sessions[callers[c].cur].state))],
                   callers[c].err)]
    /\ UNCHANGED <<dsk_requests, apiVars>>

-----------------------------------------------------------------------------
(* Specifications *)

InventoryIdle == InitInventory

AcquireIdle == InitAcquire

DiscoveryIdle == InitDiscovery

InitSpecCodec == InitCodec /\ DiscoveryIdle /\ AcquireIdle /\ ApiIdle /\ InventoryIdle

NextCodec ==
    \/ CodecEncode /\ UNCHANGED <<discVars, acqVars, apiVars, invVars>>
    \/ CodecDecode /\ UNCHANGED <<discVars, acqVars, apiVars, invVars>>

SpecCodec == InitSpecCodec /\ [][NextCodec]_vars

InitSpecDiscovery == CodecIdle /\ InitDiscovery /\ AcquireIdle /\ ApiIdle /\ InventoryIdle

NextDiscovery ==
    \/ RemoteConnectionMade /\ UNCHANGED <<localVars, n_datagrams, codecVars, acqVars, apiVars, invVars>>
    \/ RemoteTimeout /\ UNCHANGED <<localVars, n_datagrams, codecVars, acqVars, apiVars, invVars>>
    \/ RemoteReceiveLookupAddr /\ UNCHANGED <<localVars, codecVars, acqVars, apiVars, invVars>>
    \/ RemoteReceiveOther /\ UNCHANGED <<localVars, codecVars, acqVars, apiVars, invVars>>
    \/ LocalConnectionMade /\ UNCHANGED <<remoteVars, n_datagrams, codecVars, acqVars, apiVars, invVars>>
    \/ LocalTimeout /\ UNCHANGED <<remoteVars, n_datagrams, codecVars, acqVars, apiVars, invVars>>
    \/ LocalReceiveResp /\ UNCHANGED <<remoteVars, codecVars, acqVars, apiVars, invVars>>
    \/ LocalReceiveOther /\ UNCHANGED <<remoteVars, codecVars, acqVars, apiVars, invVars>>

SpecDiscovery == InitSpecDiscovery /\ [][NextDiscovery]_vars

\* the discovery clients on an event loop that runs the timeout(1.5) task a
\* connection_made created once its sleep is over
RemoteTimerRuns ==
    RemoteTimeout /\ UNCHANGED <<localVars, n_datagrams, codecVars, acqVars, apiVars, invVars>>

LocalTimerRuns ==
    LocalTimeout /\ UNCHANGED <<remoteVars, n_datagrams, codecVars, acqVars, apiVars, invVars>>

SpecDiscoveryFair ==
    /\ InitSpecDiscovery
    /\ [][NextDiscovery]_vars
    /\ WF_vars(RemoteTimerRuns)
    /\ WF_vars(LocalTimerRuns)

\* the server of the acquisition and inventory specifications: while they run
\* the token does not reach its expiration (no TokenExpires step) and no
\* response has a status or a reason that holds 401, so a request is sent
\* once, with the stored token, and returns its data or raises
SteadyStatus(t) ==
    /\ ResponseStatus(t)
    /\ LET answered == a_call'[t].responses
       IN  Len(answered) > Len(a_call[t].responses)
              => ~Mentions401(answered[Len(answered)])

\* the inventory after an update that listed station "A" and no other
InventoryWithStation ==
    /\ u_listeners = <<>>
    /\ u_devices = [sn \in Serials |-> NoEntry]
    /\ u_stations = [sn \in Serials |->
          IF sn = "A" THEN [obj |-> 1, device_info |-> [sn |-> "A", value |-> 0]]
          ELSE NoEntry]
    /\ u_pc = "idle"
    /\ u_registered = {}
    /\ u_event = NoEvent

\* device operations on an API object that has logged in and knows station
\* "A"
InitSpecAcquire ==
    CodecIdle /\ DiscoveryIdle /\ InitAcquire /\ ApiLoggedIn /\ InventoryWithStation

NextAcquire ==
    \/ \E c \in Callers : Call(c) /\ UNCHANGED <<codecVars, discVars, invVars>>
    \/ \E c \in Callers : RequestEntry(c) /\ UNCHANGED <<codecVars, discVars, acqVars, invVars>>
    \/ \E c \in Callers : RequestSend(c) /\ KeysSent(c) /\ UNCHANGED <<codecVars, discVars, invVars>>
    \/ \E c \in Callers : SteadyStatus(c) /\ UNCHANGED <<codecVars, discVars, acqVars, invVars>>
    \/ \E c \in Callers : ResponseBody(c) /\ UNCHANGED <<codecVars, discVars, acqVars, invVars>>
    \/ \E c \in Callers : Exit(c) /\ UNCHANGED <<codecVars, discVars, acqVars, invVars>>
    \/ \E c \in Callers : KeysFail(c) /\ UNCHANGED <<codecVars, discVars, invVars>>
    \/ \E c \in Callers : KeysResponse(c) /\ UNCHANGED <<codecVars, discVars, invVars>>
    \/ \E c \in Callers : ConnectResult(c) /\ UNCHANGED <<codecVars, discVars, invVars>>
    \/ \E c \in Callers : SendCommand(c) /\ UNCHANGED <<codecVars, discVars, invVars>>
    \/ \E c \in Callers : CommandDone(c) /\ UNCHANGED <<codecVars, discVars, invVars>>
    \/ \E c \in Callers : Close(c) /\ UNCHANGED <<codecVars, discVars, invVars>>

SpecAcquire == InitSpecAcquire /\ [][NextAcquire]_vars

InitSpecApi == CodecIdle /\ DiscoveryIdle /\ AcquireIdle /\ InitApi /\ InventoryIdle

NextApi ==
    \/ \E t \in ApiTasks : ApiCall(t) /\ UNCHANGED <<codecVars, discVars, acqVars, invVars>>
    \/ \E t \in ApiTasks : RequestEntry(t) /\ UNCHANGED <<codecVars, discVars, acqVars, invVars>>
    \/ \E t \in ApiTasks : AuthEntry(t) /\ UNCHANGED <<codecVars, discVars, acqVars, invVars>>
    \/ \E t \in ApiTasks : RequestSend(t) /\ UNCHANGED <<codecVars, discVars, acqVars, invVars>>
    \/ \E t \in ApiTasks : ResponseStatus(t) /\ UNCHANGED <<codecVars, discVars, acqVars, invVars>>
    \/ \E t \in ApiTasks : ResponseBody(t) /\ UNCHANGED <<codecVars, discVars, acqVars, invVars>>
    \/ \E t \in ApiTasks : Exit(t) /\ UNCHANGED <<codecVars, discVars, acqVars, invVars>>
    \/ \E t \in ApiTasks : Return(t) /\ UNCHANGED <<codecVars, discVars, acqVars, invVars>>
    \/ TokenExpires /\ UNCHANGED <<codecVars, discVars, acqVars, invVars>>

SpecApi == InitSpecApi /\ [][NextApi]_vars

\* the API object used by two tasks at once, after async_login: a login has
\* succeeded and stored its token; a task runs from one await on the network
\* to the next, then any task with an answer due goes on
ConcurrentTasks == {4, 5}
MaxConcurrentCalls == 1     \* calls each of the tasks makes
MaxConcurrentRequests == 2  \* requests one of these calls sends

InitSpecApiConcurrent ==
    /\ CodecIdle /\ DiscoveryIdle /\ AcquireIdle /\ InventoryIdle
    /\ a_retry_on_401 = FALSE
    /\ a_token \in Tokens
    /\ a_token_expiration = "future"
    /\ a_api_base = "default"
    /\ a_running = NoTask
    /\ a_stack = [t \in Tasks |-> <<>>]
    /\ a_call = [t \in Tasks |-> NoCall]

ConcurrentCall(t) ==
    /\ a_call[t].n < MaxConcurrentCalls
    /\ ApiCall(t)

ConcurrentSend(t) ==
    /\ Len(a_call[t].sent) < MaxConcurrentRequests
    /\ RequestSend(t)

NextApiConcurrent ==
    \/ \E t \in ConcurrentTasks : ConcurrentCall(t) /\ UNCHANGED <<codecVars, discVars, acqVars, invVars>>
    \/ \E t \in ConcurrentTasks : RequestEntry(t) /\ UNCHANGED <<codecVars, discVars, acqVars, invVars>>
    \/ \E t \in ConcurrentTasks : AuthEntry(t) /\ UNCHANGED <<codecVars, discVars, acqVars, invVars>>
    \/ \E t \in ConcurrentTasks : ConcurrentSend(t) /\ UNCHANGED <<codecVars, discVars, acqVars, invVars>>
    \/ \E t \in ConcurrentTasks : ResponseStatus(t) /\ UNCHANGED <<codecVars, discVars, acqVars, invVars>>
    \/ \E t \in ConcurrentTasks : ResponseBody(t) /\ UNCHANGED <<codecVars, discVars, acqVars, invVars>>
    \/ \E t \in ConcurrentTasks : Exit(t) /\ UNCHANGED <<codecVars, discVars, acqVars, invVars>>
    \/ \E t \in ConcurrentTasks : Return(t) /\ UNCHANGED <<codecVars, discVars, acqVars, invVars>>
    \/ TokenExpires /\ UNCHANGED <<codecVars, discVars, acqVars, invVars>>

SpecApiConcurrent == InitSpecApiConcurrent /\ [][NextApiConcurrent]_vars

\* the inventory of an API object that has logged in
InitSpecInventory == CodecIdle /\ DiscoveryIdle /\ AcquireIdle /\ ApiLoggedIn /\ InitInventory

NextInventory ==
    \/ \E cb \in Callbacks : subscribe(cb) /\ UNCHANGED <<codecVars, discVars, acqVars, apiVars>>
    \/ \E cb \in Callbacks : unsubscribe(cb) /\ UNCHANGED <<codecVars, discVars, acqVars, apiVars>>
    \/ UpdateStart /\ UNCHANGED <<codecVars, discVars, acqVars>>
    \/ RequestEntry(UpdateTask) /\ UNCHANGED <<codecVars, discVars, acqVars, invVars>>
    \/ RequestSend(UpdateTask) /\ UNCHANGED <<codecVars, discVars, acqVars, invVars>>
    \/ SteadyStatus(UpdateTask) /\ UNCHANGED <<codecVars, discVars, acqVars, invVars>>
    \/ ResponseBody(UpdateTask) /\ UNCHANGED <<codecVars, discVars, acqVars, invVars>>
    \/ Exit(UpdateTask) /\ UNCHANGED <<codecVars, discVars, acqVars, invVars>>
    \/ DevsResponse /\ UNCHANGED <<codecVars, discVars, acqVars>>
    \/ HubsResponse /\ UNCHANGED <<codecVars, discVars, acqVars>>
    \/ UpdateFail /\ UNCHANGED <<codecVars, discVars, acqVars>>

SpecInventory == InitSpecInventory /\ [][NextInventory]_vars

\* the whole program from construction: every task of the event loop, any
\* server answer, the token expiring at any time. Every step of the
\* specifications above is a step of this relation
Init == InitCodec /\ InitDiscovery /\ InitAcquire /\ InitApi /\ InitInventory

Next ==
    \/ NextCodec
    \/ NextDiscovery
    \/ \E t \in ApiTasks \cup ConcurrentTasks :
          ApiCall(t) /\ UNCHANGED <<codecVars, discVars, acqVars, invVars>>
    \/ \E t \in Tasks : RequestEntry(t) /\ UNCHANGED <<codecVars, discVars, acqVars, invVars>>
    \/ \E t \in Tasks : AuthEntry(t) /\ UNCHANGED <<codecVars, discVars, acqVars, invVars>>
    \/ \E t \in Tasks : RequestSend(t) /\ KeysSent(t) /\ UNCHANGED <<codecVars, discVars, invVars>>
    \/ \E t \in Tasks : ResponseStatus(t) /\ UNCHANGED <<codecVars, discVars, acqVars, invVars>>
    \/ \E t \in Tasks : ResponseBody(t) /\ UNCHANGED <<codecVars, discVars, acqVars, invVars>>
    \/ \E t \in Tasks : Exit(t) /\ UNCHANGED <<codecVars, discVars, acqVars, invVars>>
    \/ \E t \in Tasks : Return(t) /\ UNCHANGED <<codecVars, discVars, acqVars, invVars>>
    \/ TokenExpires /\ UNCHANGED <<codecVars, discVars, acqVars, invVars>>
    \/ \E c \in Callers : Call(c) /\ UNCHANGED <<codecVars, discVars, invVars>>
    \/ \E c \in Callers : KeysFail(c) /\ UNCHANGED <<codecVars, discVars, invVars>>
    \/ \E c \in Callers : KeysResponse(c) /\ UNCHANGED <<codecVars, discVars, invVars>>
    \/ \E c \in Callers : ConnectResult(c) /\ UNCHANGED <<codecVars, discVars, invVars>>
    \/ \E c \in Callers : SendCommand(c) /\ UNCHANGED <<codecVars, discVars, invVars>>
    \/ \E c \in Callers : CommandDone(c) /\ UNCHANGED <<codecVars, discVars, invVars>>
    \/ \E c \in Callers : Close(c) /\ UNCHANGED <<codecVars, discVars, invVars>>
    \/ \E cb \in Callbacks : subscribe(cb) /\ UNCHANGED <<codecVars, discVars, acqVars, apiVars>>
    \/ \E cb \in Callbacks : unsubscribe(cb) /\ UNCHANGED <<codecVars, discVars, acqVars, apiVars>>
    \/ UpdateStart /\ UNCHANGED <<codecVars, discVars, acqVars>>
    \/ DevsResponse /\ UNCHANGED <<codecVars, discVars, acqVars>>
    \/ HubsResponse /\ UNCHANGED <<codecVars, discVars, acqVars>>
    \/ UpdateFail /\ UNCHANGED <<codecVars, discVars, acqVars>>

Spec == Init /\ [][Next]_vars

-----------------------------------------------------------------------------
(* Claims about the frame codec (SpecCodec) *)

\* the 2-byte big-endian length field create_message writes for a payload
LengthField(payload) == <<Len(payload) \div 256, Len(payload) % 256>>

\* C1 (as stated): decoding the bytes produced by create_message yields the
\* same type and the same payload, for every payload of at most 65535 bytes.
\* Stated on the frames whose type code datagram_received accepts, so that
\* the membership of a code in the response enumeration does not decide it.
C1_RoundTrip ==
    (c_pc = "decoded" /\ Len(c_payload) <= 65535 /\ c_decoded.ok)
        => /\ c_decoded.msg_type = c_type
           /\ c_decoded.payload = c_payload

\* C1 (amended): every payload of at most 65535 bytes is encoded; decoding
\* the frame succeeds exactly when the type code is a member of the response
\* enumeration, and then yields the same type code and, as payload, the 2-byte
\* big-endian length field followed by the original payload.
C1_RoundTripKeepsLength ==
    /\ (c_pc # "start" /\ Len(c_payload) <= 65535) => c_msg.ok
    /\ c_pc = "decoded" =>
          /\ c_decoded.ok <=> c_type \in P2PClientProtocolResponseMessageType
          /\ c_decoded.ok =>
                /\ c_decoded.msg_type = c_type
                /\ c_decoded.payload = LengthField(c_payload) \o c_payload

\* a non-empty payload of more than 255 bytes went through encode and decode
C1_Witness ==
    /\ c_pc = "decoded"
    /\ c_decoded.ok
    /\ Len(c_payload) > 255

\* C15: for every type and every payload of at most 65535 bytes,
\* create_message returns the 2 type bytes, then len(payload) as a 2-byte
\* big-endian unsigned integer, then the payload unchanged; the length field
\* read back as an integer equals len(payload).
C15_EncodingLayout ==
    (c_pc # "start" /\ Len(c_payload) <= 65535)
        => /\ c_msg.ok
           /\ c_msg.msg = c_type \o ToBytesBE(Len(c_payload), 2) \o c_payload
           /\ Len(c_msg.msg) = 4 + Len(c_payload)
           /\ c_msg.msg[3] * 256 + c_msg.msg[4] = Len(c_payload)
           /\ SliceFrom(c_msg.msg, 4) = c_payload

\* the longest payload the length field can describe has been encoded
C15_Witness ==
    /\ c_pc = "encoded"
    /\ Len(c_payload) = 65535
    /\ c_msg.ok
    /\ c_msg.msg[3] = 255 /\ c_msg.msg[4] = 255

-----------------------------------------------------------------------------
(* Claims about discovery (SpecDiscovery) *)

RemoteResult == FutureResult(r_future, r_addresses)
LocalResult == FutureResult(l_future, l_addresses)

\* what holds of the resolution of both lookups in every state
ResolutionCounts ==
    /\ r_hist.set_result_calls <= 1
    /\ l_hist.set_result_calls <= 1
    /\ r_future.done <=> r_hist.set_result_calls = 1
    /\ l_future.done <=> l_hist.set_result_calls = 1
    /\ "InvalidStateError" \notin (r_hist.raised \cup l_hist.raised)
    /\ (r_timer = "fired" \/ r_response_count >= ExpectedResponses) => r_future.done
    /\ (l_timer = "fired" \/ Len(l_addresses) >= 1) => l_future.done

\* C2: in both discovery clients the result is resolved exactly once: each
\* completion trigger (timer, second LOOKUP_ADDR, LOCAL_LOOKUP_RESP) leaves the
\* lookup resolved, set_result is called at most once, no trigger raises a
\* double-resolve error (InvalidStateError), and a trigger on a resolved
\* lookup neither sets the future again nor raises.
C2_ResolvedOnce ==
    /\ []ResolutionCounts
    /\ [][/\ r_future.done =>
                /\ r_future' = r_future
                /\ r_hist'.set_result_calls = r_hist.set_result_calls
                /\ r_hist'.raised \subseteq r_hist.raised \cup {ProtocolError, "IndexError"}
          /\ l_future.done =>
                /\ l_future' = l_future
                /\ l_hist'.set_result_calls = l_hist.set_result_calls
                /\ l_hist'.raised \subseteq l_hist.raised \cup {ProtocolError}]_vars

\* the remote lookup was resolved by responses and its timer fired later; the
\* local lookup was resolved by its timer and a response came later
C2_Witness ==
    /\ r_hist.resolved_by = "responses"
    /\ r_timer = "fired"
    /\ l_hist.resolved_by = "timer"
    /\ Len(l_addresses) >= 1

\* C3: two LOOKUP_ADDR responses arriving before the timer fires, in either
\* order, resolve the remote lookup on the arrival of the second one, before
\* the timer fires, with exactly the two candidates the responses carried.
C3_TwoResponsesResolve ==
    r_timer = "armed" =>
        /\ Len(r_hist.received) < ExpectedResponses => ~r_future.done
        /\ Len(r_hist.received) >= ExpectedResponses =>
              /\ r_future.done
              /\ r_hist.resolved_by = "responses"
              /\ r_hist.snapshot = SubSeq(r_hist.received, 1, ExpectedResponses)
        /\ Len(r_hist.received) = ExpectedResponses =>
              RemoteResult = r_hist.received

\* two different candidates arrived and resolved the lookup, timer still armed
C3_Witness ==
    /\ r_timer = "armed"
    /\ Len(r_hist.received) = 2
    /\ r_hist.received[1] # r_hist.received[2]
    /\ r_future.done
    /\ n_datagrams > 2

\* C4: with no LOOKUP_ADDR response the remote lookup stays unresolved until
\* the timer fires, and is then resolved with the empty list, as a result and
\* without an error.
C4_NoResponseTimeout ==
    r_hist.received = <<>> =>
        /\ r_timer # "fired" => ~r_future.done
        /\ r_timer = "fired" =>
              /\ r_future.done
              /\ r_future.result = "self.addresses"
              /\ RemoteResult = <<>>
              /\ r_hist.resolved_by = "timer"
              /\ r_hist.snapshot = <<>>
              /\ "InvalidStateError" \notin r_hist.raised

\* the timer fired on a lookup that got datagrams, none of them a readable
\* LOOKUP_ADDR
C4_Witness ==
    /\ r_timer = "fired"
    /\ r_hist.received = <<>>
    /\ r_future.done
    /\ n_datagrams > 0

\* C5: when the remote lookup was already resolved by responses, the timer
\* firing afterwards leaves the future, the list it holds and the exceptions
\* raised so far unchanged.
C5_TimeoutAfterResolveIsNoOp ==
    [][(r_hist.resolved_by = "responses" /\ r_timer = "armed" /\ r_timer' = "fired")
        => /\ r_future' = r_future
           /\ RemoteResult' = RemoteResult
           /\ r_addresses' = r_addresses
           /\ r_hist' = r_hist]_vars

\* the timer fired after the responses had resolved the lookup
C5_Witness ==
    /\ r_hist.resolved_by = "responses"
    /\ r_timer = "fired"
    /\ Len(RemoteResult) = 2

\* C6 (as stated): the first LOCAL_LOOKUP_RESP resolves the local lookup with
\* the responding address as its single candidate, and the resolved result
\* still holds exactly that candidate after any later response.
C6_FirstLocalResponseWins ==
    l_hist.received # <<>> =>
        /\ l_future.done
        /\ (l_hist.resolved_by = "responses" => LocalResult = <<l_hist.received[1]>>)

\* the last datagram handed to a client had type bytes outside the response
\* enumeration
UnknownDelivered(hist) ==
    /\ hist.last.n > 0
    /\ SliceTo(hist.last.data, 2) \notin P2PClientProtocolResponseMessageType

\* C16: decoding a datagram whose first 2 bytes are no member of the response
\* enumeration fails with a ProtocolError, and the failed delivery leaves the
\* candidate list, the response count and the unresolved result of the lookup
\* as they were.
C16_UnknownCodeFails ==
    /\ [](/\ UnknownDelivered(r_hist) <=> r_hist.last.error = ProtocolError
          /\ UnknownDelivered(l_hist) <=> l_hist.last.error = ProtocolError)
    /\ [][/\ (r_hist'.last # r_hist.last /\ UnknownDelivered(r_hist'))
                => UNCHANGED <<r_addresses, r_response_count, r_future>>
          /\ (l_hist'.last # l_hist.last /\ UnknownDelivered(l_hist'))
                => UNCHANGED <<l_addresses, l_future>>]_vars

\* an unknown datagram reached the remote client between its first and its
\* second response, and the local client before any response
C16_Witness ==
    /\ r_hist.last.error = ProtocolError
    /\ Len(r_addresses) = 1 /\ r_response_count = 1 /\ ~r_future.done
    /\ l_hist.last.error = ProtocolError
    /\ l_addresses = <<>> /\ ~l_future.done

\* this step handed a LOOKUP_ADDR datagram to the remote client
LookupAddrStep ==
    /\ r_hist'.last # r_hist.last
    /\ SliceTo(r_hist'.last.data, 2) = LOOKUP_ADDR

\* the candidate the bytes of a payload describe: the address from bytes[6:10]
\* in reversed order, the port from bytes[4:6] as a little-endian integer
CandidateOfBytes(payload) ==
    <<Reverse(SubSeq(payload, 7, 10)), payload[5] + 256 * payload[6]>>

\* C17 (as stated): for every inbound LOOKUP_ADDR datagram the remote client
\* appends exactly one candidate (ip, port), port the little-endian 16-bit
\* value of payload bytes[4:6] and ip payload bytes[6:10] in reversed order,
\* the payload being the datagram without its 2 type bytes.
C17_EveryLookupAddrAppends ==
    [][LookupAddrStep =>
          LET payload == SliceFrom(r_hist'.last.data, 2)
          IN  /\ Len(r_addresses') = Len(r_addresses) + 1
              /\ r_addresses' = Append(r_addresses, CandidateOfBytes(payload))]_vars

\* C17 (amended): a LOOKUP_ADDR datagram whose payload has at least 10 bytes
\* makes the remote client append exactly that one candidate, before and
\* after the lookup is resolved; one with a shorter payload ends in an
\* IndexError and appends nothing.
C17_ReadableLookupAddrAppends ==
    [][LookupAddrStep =>
          LET payload == SliceFrom(r_hist'.last.data, 2)
          IN  IF Len(payload) >= 10
              THEN /\ r_hist'.last.error = "none"
                   /\ r_addresses' = Append(r_addresses, CandidateOfBytes(payload))
                   /\ r_response_count' = r_response_count + 1
              ELSE /\ r_hist'.last.error = "IndexError"
                   /\ r_addresses' = r_addresses
                   /\ r_response_count' = r_response_count]_vars

\* the last datagram was a LOOKUP_ADDR for 203.0.113.7:258, the candidate is
\* the last of the list, and a short LOOKUP_ADDR datagram came before it
C17_Witness ==
    /\ r_hist.last.data = LookupAddrDatagram(<<<<203, 0, 113, 7>>, 258>>)
    /\ r_hist.last.error = "none"
    /\ r_addresses # <<>>
    /\ r_addresses[Len(r_addresses)] = <<<<203, 0, 113, 7>>, 258>>
    /\ "IndexError" \in r_hist.raised

\* the payload of the request the remote client sent and the socket name it
\* was sent from
SentPayload == SliceFrom(r_sent[1].data, 4)
SentFrom == r_sent[1].sockname

\* the fields of the request up to the bound address, for P2P-DID
\* "AB-00001-CD": prefix, numeric segment, suffix, 5 zero bytes, port, address
RequestHead(payload, sockname) ==
    /\ SubSeq(payload, 1, 2) = <<65, 66>>
    /\ SubSeq(payload, 3, 7) = <<0, 0, 0, 0, 1>>
    /\ SubSeq(payload, 8, 9) = <<67, 68>>
    /\ SubSeq(payload, 10, 14) = <<0, 0, 0, 0, 0>>
    /\ payload[15] + 256 * payload[16] = sockname[2]
    /\ <<payload[20], payload[19], payload[18], payload[17]>> = sockname[1]

FixedBytes == <<0, 0, 0, 0, 0, 0, 0, 0, 2, 4, 0, 0>>

\* C18 (as stated): the LOOKUP_WITH_KEY payload is the P2P-DID prefix, the
\* numeric segment as 5 bytes big-endian, the suffix, 5 zero bytes, the bound
\* port as 2 bytes little-endian, the bound address in reversed octet order,
\* 13 padding bytes holding 00 00 00 00 00 00 00 00 02 04 00 00, the key and
\* 4 zero bytes.
C18_PayloadLayout13 ==
    r_sent # <<>> =>
        /\ RequestHead(SentPayload, SentFrom)
        /\ SubSeq(SubSeq(SentPayload, 21, 33), 1, 12) = FixedBytes
        /\ Len(SentPayload) = 20 + 13 + Len(DeviceKey) + 4
        /\ SubSeq(SentPayload, 34, 33 + Len(DeviceKey)) = DeviceKey
        /\ SliceFrom(SentPayload, 33 + Len(DeviceKey)) = <<0, 0, 0, 0>>

\* C18 (amended): the same layout with 12 padding bytes, the twelve listed;
\* the request is one LOOKUP_WITH_KEY frame sent to the relay.
C18_PayloadLayout12 ==
    r_sent # <<>> =>
        /\ Len(r_sent) = 1
        /\ r_sent[1].addr = RelayAddr
        /\ SliceTo(r_sent[1].data, 4) = LOOKUP_WITH_KEY \o <<0, Len(SentPayload)>>
        /\ RequestHead(SentPayload, SentFrom)
        /\ SubSeq(SentPayload, 21, 32) = FixedBytes
        /\ Len(SentPayload) = 20 + 12 + Len(DeviceKey) + 4
        /\ SubSeq(SentPayload, 33, 32 + Len(DeviceKey)) = DeviceKey
        /\ SliceFrom(SentPayload, 32 + Len(DeviceKey)) = <<0, 0, 0, 0>>

\* the request for "AB-00001-CD" with key "k" left a socket bound to
\* 10.0.0.5:40000
C18_Witness ==
    /\ r_sent # <<>>
    /\ SentFrom = <<<<10, 0, 0, 5>>, 40000>>
    /\ SentPayload = <<65, 66, 0, 0, 0, 0, 1, 67, 68, 0, 0, 0, 0, 0,
                       64, 156, 5, 0, 0, 10,
                       0, 0, 0, 0, 0, 0, 0, 0, 2, 4, 0, 0,
                       107, 0, 0, 0, 0>>

-----------------------------------------------------------------------------
(* Claims about session acquisition (SpecAcquire) *)

InScope(c) == callers[c].pc \in {"body", "sending"}

\* C7: when the supplied session is valid for the serial of the target's
\* station, the scoped block of a device and of a station gets that same
\* session, and the acquisition has sent no key-material request and created
\* no session.
C7_ReuseYieldsSupplied ==
    \A c \in Callers :
        (/\ InScope(c)
         /\ callers[c].supplied # NoSession
         /\ valid_for(sessions[callers[c].supplied], callers[c].target.station_sn))
        => /\ callers[c].cur = callers[c].supplied
           /\ callers[c].opened = NoSession
           /\ ~callers[c].key_request

\* a station and a floodlight camera both run their block on the session
\* they were given
C7_Witness ==
    \E c, d \in Callers :
        /\ callers[c].pc = "sending" /\ callers[d].pc = "sending"
        /\ callers[c].target.kind = "station"
        /\ callers[d].target.kind = "floodlight"
        /\ callers[c].supplied # NoSession /\ callers[c].cur = callers[c].supplied
        /\ callers[d].supplied # NoSession /\ callers[d].cur = callers[d].supplied
        /\ dsk_requests = 0

\* C8: a session supplied by the caller is never closed by the acquisition
\* policy, whether it was reused or rejected and replaced, after normal and
\* after exceptional scope exits.
C8_SuppliedNeverClosed ==
    \A i \in 1..Len(sessions) :
        sessions[i].owner = "caller" =>
            sessions[i].closes = 0 /\ sessions[i].state = "connected"

\* one operation reused the supplied session and its block raised; another
\* got a supplied session that was not valid, opened its own and finished
C8_Witness ==
    \E c, d \in Callers :
        /\ callers[c].pc = "done" /\ callers[d].pc = "done"
        /\ callers[c].supplied # NoSession /\ callers[c].opened = NoSession
        /\ callers[c].body = "raised"
        /\ callers[d].supplied # NoSession /\ callers[d].opened # NoSession
        /\ callers[d].body = "ok"

\* C9: a session the policy opened and connected is closed exactly once on
\* scope exit, after a normal block and after a block that raised, and the
\* exception of the block reaches the caller; it is not closed before.
C9_OpenedClosedOnce ==
    /\ \A i \in 1..Len(sessions) : sessions[i].closes <= 1
    /\ \A c \in Callers :
          /\ (InScope(c) /\ callers[c].opened # NoSession) =>
                /\ sessions[callers[c].opened].closes = 0
                /\ sessions[callers[c].opened].state = "connected"
          /\ (callers[c].pc = "done" /\ callers[c].connect = "connected") =>
                /\ sessions[callers[c].opened].closes = 1
                /\ sessions[callers[c].opened].state = "closed"
                /\ callers[c].body = "raised" => callers[c].err = "CommandError"
                /\ callers[c].body = "ok" => callers[c].err = "none"

\* an operation opened its own session, its command raised, and it is over
C9_Witness ==
    \E c \in Callers :
        /\ callers[c].pc = "done"
        /\ callers[c].connect = "connected"
        /\ callers[c].body = "raised"
        /\ sessions[callers[c].opened].closes = 1

\* C10 (as stated): every session the acquisition created has been closed
\* when the acquisition is over, on every exit path of Station.connect.
C10_EveryCreatedSessionClosed ==
    \A c \in Callers :
        (callers[c].pc = "done" /\ callers[c].opened # NoSession)
            => sessions[callers[c].opened].closes >= 1

\* C11: the scoped block of an acquisition runs, and a command is sent, only
\* with a session whose connect reported success; when connect reports
\* not-connected the acquisition raises EufySecurityP2PError and the scoped
\* block never executes.
C11_NoSessionOnFailedConnect ==
    \A c \in Callers :
        /\ (InScope(c) /\ callers[c].opened # NoSession) =>
              /\ callers[c].connect = "connected"
              /\ callers[c].cur = callers[c].opened
        /\ (callers[c].pc = "done" /\ callers[c].connect = "not connected") =>
              /\ callers[c].err = "EufySecurityP2PError: could not connect"
              /\ callers[c].body = "none"
              /\ callers[c].command = <<>>
              /\ sessions[callers[c].opened].state # "connected"

\* an acquisition whose connect reported not-connected is over while another
\* is sending a command on the session it connected
C11_Witness ==
    \E c, d \in Callers :
        /\ callers[c].pc = "done"
        /\ callers[c].connect = "not connected"
        /\ callers[d].pc = "sending"
        /\ callers[d].opened # NoSession
        /\ callers[d].connect = "connected"

\* C12: when no usable session is supplied and the owning station of the
\* target device is not in the station inventory, the acquisition fails with
\* EufySecurityP2PError without a key-material request and without creating
\* a session; every acquisition that got further had a station to ask.
C12_UnknownStationFailsEarly ==
    \A c \in Callers :
        /\ (callers[c].pc = "done"
            /\ callers[c].target.kind # "station"
            /\ callers[c].target.station_sn \notin Present(u_stations)
            /\ ~(callers[c].supplied # NoSession
                 /\ sessions[callers[c].supplied].serial = callers[c].target.station_sn))
           => /\ callers[c].err = "EufySecurityP2PError: no station"
              /\ ~callers[c].key_request
              /\ callers[c].opened = NoSession
              /\ callers[c].body = "none"
        /\ callers[c].err = "EufySecurityP2PError: no station"
           => /\ callers[c].target.kind # "station"
              /\ callers[c].target.station_sn \notin Present(u_stations)
        /\ callers[c].pc \in {"keys", "connecting"}
           => callers[c].target.station_sn \in Present(u_stations)

\* a device of an unknown station was given a session bound to another
\* station, and its acquisition is over with the lookup error
C12_Witness ==
    \E c \in Callers :
        /\ callers[c].pc = "done"
        /\ callers[c].err = "EufySecurityP2PError: no station"
        /\ callers[c].supplied # NoSession
        /\ dsk_requests = 0
        /\ \A i \in 1..Len(sessions) : sessions[i].owner = "caller"

\* C13: when the key-material response has no entry for the serial of the
\* station (an empty list included), Station.connect fails with
\* EufySecurityP2PError and creates no session; when it has one, the
\* "no discovery key" error is not raised and a session is created.
C13_NoKeyNoSession ==
    \A c \in Callers :
        /\ callers[c].key_listed = "no"
           => /\ callers[c].pc = "done"
              /\ callers[c].err = "EufySecurityP2PError: no discovery key"
              /\ callers[c].opened = NoSession
        /\ callers[c].key_listed = "yes"
           => /\ callers[c].err # "EufySecurityP2PError: no discovery key"
              /\ callers[c].opened # NoSession
        /\ callers[c].err = "EufySecurityP2PError: no discovery key"
           => callers[c].key_listed = "no"

\* one acquisition ended without a key while another found the key of its
\* station in the response and created a session
C13_Witness ==
    \E c, d \in Callers :
        /\ callers[c].pc = "done"
        /\ callers[c].key_listed = "no"
        /\ callers[c].err = "EufySecurityP2PError: no discovery key"
        /\ callers[d].key_listed = "yes"
        /\ callers[d].pc = "connecting"

\* C14: a session opened by the station with serial A is bound to A, so it is
\* valid for A and for no other serial; a device runs its block on the
\* supplied session exactly when the serial that session is bound to equals
\* the serial of the device's station.
C14_ReuseIffSameSerial ==
    \A c \in Callers :
        /\ (callers[c].pc \in {"connecting", "body", "sending", "closing"}
            /\ callers[c].opened # NoSession)
           => \A serial \in Serials :
                 valid_for(sessions[callers[c].opened], serial)
                    <=> serial = callers[c].target.station_sn
        /\ (InScope(c) /\ callers[c].target.kind # "station")
           => ((callers[c].cur = callers[c].supplied /\ callers[c].opened = NoSession)
                  <=> (/\ callers[c].supplied # NoSession
                       /\ sessions[callers[c].supplied].serial
                             = callers[c].target.station_sn))

\* one device runs on the session it was given, another was given a session
\* bound to a different station and runs on one its station opened
C14_Witness ==
    \E c, d \in Callers :
        /\ InScope(c) /\ InScope(d)
        /\ callers[c].target.kind # "station"
        /\ callers[d].target.kind # "station"
        /\ callers[c].supplied # NoSession
        /\ callers[c].cur = callers[c].supplied
        /\ callers[d].supplied # NoSession
        /\ sessions[callers[d].supplied].serial # callers[d].target.station_sn
        /\ callers[d].opened # NoSession
        /\ callers[d].cur = callers[d].opened
        /\ sessions[callers[d].opened].serial = callers[d].target.station_sn

-----------------------------------------------------------------------------
(* Claims about the REST API (SpecApi) *)

\* C19: when a request is answered with 401 and the login request of the
\* re-authentication it triggers is answered with 401 too, the call raises
\* InvalidCredentialsError, not RequestError, and sends nothing further: from
\* the second 401 on the exception is on its way up, nothing more is sent or
\* received, and the call ends with it.
C19_SecondUnauthorizedRaises ==
    \A t \in ApiTasks :
        \A i \in 1..(Len(a_call[t].responses) - 1) :
            (/\ a_call[t].responses[i] = "401"
             /\ a_call[t].sent[i + 1].endpoint = LoginEndpoint
             /\ a_call[t].responses[i + 1] = "401")
            => /\ a_call[t].outcome \in {"running", "InvalidCredentialsError"}
               /\ a_call[t].outcome = "running"
                  => /\ a_stack[t] # <<>>
                     /\ Top(a_stack[t]).pc = "exit"
                     /\ Top(a_stack[t]).err = "InvalidCredentialsError"
               /\ a_call[t].outcome = "InvalidCredentialsError" => a_stack[t] = <<>>
               /\ Len(a_call[t].responses) = i + 1
               /\ Len(a_call[t].sent) = i + 1

\* a request sent with a token was answered 401, so was the login that
\* followed, and the call is over with InvalidCredentialsError
C19_Witness ==
    \E t \in ApiTasks :
        /\ a_call[t].kind = "request"
        /\ a_call[t].responses = <<"401", "401">>
        /\ a_call[t].sent[1].endpoint = DataEndpoint
        /\ a_call[t].sent[1].token # NoToken
        /\ a_call[t].sent[2].endpoint = LoginEndpoint
        /\ a_call[t].outcome = "InvalidCredentialsError"

\* C20 (as stated): for every sequence of server responses one call performs
\* at most one re-authentication and at most one re-send of the original
\* request; a re-sent request that is answered with 401 ends the call instead
\* of starting another re-authentication.
C20_AtMostOneReauthentication ==
    \A t \in ApiTasks :
        /\ a_call[t].reauths <= 1
        /\ a_call[t].resends <= 1

SecondLoginBeforeRetry ==
    \E t \in ApiTasks :
        /\ a_call[t].kind = "request"
        /\ a_call[t].responses = <<"401", "ok", "ok", "ok">>
        /\ a_call[t].expires[2] = "past"
        /\ a_call[t].sent[1].token # NoToken
        /\ a_call[t].sent[3].endpoint = LoginEndpoint
        /\ a_call[t].sent[4].endpoint = DataEndpoint
        /\ a_call[t].sent[4].token = a_call[t].granted[3]
        /\ a_call[t].outcome = "ok"

\* the request frames of a task that are waiting for the login of a refresh
Refreshing(t) ==
    {k \in 1..Len(a_stack[t]) :
        a_stack[t][k].fn = "request" /\ a_stack[t][k].pc = "refresh"}

\* C22: when API.request is called at or after the expiration time of the
\* token, the first request sent is one login request, without the old token;
\* when it succeeds the token and the expiration are the ones of its response
\* and the request of the caller goes out next, with the new token; the login
\* request of a refresh never starts a refresh of its own.
C22_ExpiredTokenRefreshes ==
    \A t \in ApiTasks :
        LET call == a_call[t]
        IN  /\ (call.kind = "request" /\ call.expired /\ call.sent # <<>>)
               => /\ call.sent[1].why = "refresh"
                  /\ call.sent[1].endpoint = LoginEndpoint
                  /\ call.sent[1].token = NoToken
                  /\ (call.responses # <<>> /\ call.responses[1] = "ok")
                     => /\ Len(call.sent) = 1 =>
                              /\ call.outcome = "running"
                              /\ a_token \in {NoToken, call.granted[1]}
                              /\ a_token = call.granted[1]
                                 => a_token_expiration = call.expires[1]
                        /\ Len(call.sent) > 1 =>
                              /\ call.sent[2].why = "call"
                              /\ call.sent[2].endpoint = DataEndpoint
                              /\ call.sent[2].token = call.granted[1]
            /\ (call.kind = "request" /\ ~call.expired /\ call.sent # <<>>)
               => call.sent[1].why = "call"
            /\ \A k \in Refreshing(t) : a_stack[t][k].why # "refresh"

\* a call made with an expired token sent the login without a token, then
\* the data request with the token the login gave, different from the old one
C22_Witness ==
    \E t \in ApiTasks :
        /\ a_call[t].kind = "request"
        /\ a_call[t].expired
        /\ a_call[t].had # NoToken
        /\ a_call[t].responses = <<"ok", "ok">>
        /\ a_call[t].sent[2].token # a_call[t].had
        /\ a_call[t].refreshes = 1
        /\ a_call[t].outcome = "ok"

\* C23: request returns the response data only when the status is a success,
\* the body is non-empty and its code is 0; an empty body raises
\* RequestError, an error status other than 401 raises RequestError and a
\* non-zero code raises the domain error (InvalidCredentialsError for a bad
\* email or password); none of the three outcomes starts a re-authentication
\* or changes the stored token. Stated on the step that receives the
\* response, which raises the error, and on the calls that ended.
FailureOf(status) ==
    IF status \in {"500", "500 401", "empty"} THEN "RequestError"
    ELSE IF status = "credentials" THEN "InvalidCredentialsError"
    ELSE "DomainError"

C23_OnlySuccessReturnsData ==
    /\ [](\A t \in ApiTasks :
            /\ a_call[t].outcome = "ok" =>
                  a_call[t].responses[Len(a_call[t].responses)] = "ok"
            /\ (/\ a_call[t].outcome \notin {"none", "running", "ok"}
                /\ a_call[t].responses[Len(a_call[t].responses)] \notin {"ok", "401"})
               => a_call[t].outcome =
                     FailureOf(a_call[t].responses[Len(a_call[t].responses)]))
    /\ [][\A t \in ApiTasks :
            LET answered == Len(a_call'[t].responses)
            IN  (/\ answered = Len(a_call[t].responses) + 1
                 /\ a_call'[t].responses[answered] \notin {"ok", "401"})
                => /\ a_stack'[t] # <<>>
                   /\ Top(a_stack'[t]).pc = "exit"
                   /\ Top(a_stack'[t]).err = FailureOf(a_call'[t].responses[answered])
                   /\ a_call'[t].reauths = a_call[t].reauths
                   /\ a_token' = a_token]_vars

\* C24: a callback registered with subscribe is called with the API object on
\* every completed async_update_device_info while it is registered, and after
\* unsubscribe(callback) no later async_update_device_info calls it. Stated
\* on the state a completed update leaves: every callback registered
\* throughout the dispatch was called with the API object, and every callback
\* called was registered when the dispatch began.
CalledWithApi ==
    {u_event.called[k].cb : k \in {i \in 1..Len(u_event.called) :
                                      u_event.called[i].arg = "api"}}

C24_ObserverNotification ==
    (u_event.op = "stations" /\ u_event.error = "none")
    => /\ \A cb \in u_registered : cb \in CalledWithApi
       /\ \A cb \in CalledWithApi : cb \in u_event.registered

\* C26: create_message succeeds for every payload of length 0..65535 (65535
\* has the length field FF FF) and raises, returning no frame, for every
\* longer payload; a frame it returns never has a length field that is a
\* truncated or wrapped-around value of len(payload).
LengthCap == 65535

C26_FailsExactlyAtCap ==
    c_pc # "start"
    => /\ c_msg.ok <=> Len(c_payload) <= LengthCap
       /\ ~c_msg.ok => c_msg.msg = <<>>
       /\ c_msg.ok => 256 * c_msg.msg[3] + c_msg.msg[4] = Len(c_payload)
       /\ Len(c_payload) = LengthCap => <<c_msg.msg[3], c_msg.msg[4]>> = <<255, 255>>

\* C26 witness: a payload one byte over the cap was refused
C26_Witness ==
    /\ c_pc = "encoded"
    /\ Len(c_payload) = LengthCap + 1
    /\ c_msg = NoFrame

\* C27: in a device operation without a supplied session the events occur
\* strictly in the order key-material request, session connect, command
\* send, session close; exactly one command is sent; no command is sent on a
\* session before its connect succeeded or after its close.
OperationOrder == <<"connect", "send", "close">>

\* the key-material requests of a trace: one, and one more for every time
\* request sent it again after a 401
KeyRequests(trace) == {k \in 1..Len(trace) : trace[k].ev = "keys"}

C27_OperationOrder ==
    \A c \in Callers :
        (callers[c].pc # "idle" /\ callers[c].supplied = NoSession)
        => LET trace == callers[c].trace
               n == Cardinality(KeyRequests(trace))
           IN  /\ KeyRequests(trace) = 1..n
               /\ trace # <<>> => n >= 1
               /\ Len(trace) <= n + Len(OperationOrder)
               /\ \A k \in (n + 1)..Len(trace) :
                     /\ trace[k].ev = OperationOrder[k - n]
                     /\ trace[k].ev = "connect" => trace[k].state = "created"
                     /\ trace[k].ev \in {"send", "close"}
                        => /\ trace[k].on = trace[n + 1].on
                           /\ trace[k].state = "connected"
                           /\ callers[c].connect = "connected"
               /\ callers[c].pc \in {"sending", "closing"} => Len(trace) = n + 2
               /\ (callers[c].pc = "done" /\ Len(trace) >= n + 2) => Len(trace) = n + 3
               /\ (callers[c].pc = "done" /\ callers[c].err = "none") => Len(trace) = n + 3

\* C27 witness: an operation without a supplied session has run to its end
C27_Witness ==
    \E c \in Callers :
        /\ callers[c].pc = "done"
        /\ callers[c].supplied = NoSession
        /\ callers[c].err = "none"
        /\ Len(callers[c].trace) = 4
        /\ callers[c].trace[3].ev = "send"
        /\ sessions[callers[c].trace[3].on].state = "closed"

\* C28: every discovery lookup whose request was sent eventually resolves its
\* result, provided the timer task is eventually run, whatever datagrams
\* arrive: none, fewer than expected, other types, or undecodable ones.
C28_LookupResolves ==
    /\ (r_sent # <<>>) ~> r_future.done
    /\ (l_sent # <<>>) ~> l_future.done

\* C28 witness: the timer resolved a remote lookup that had received one
\* candidate and datagrams that failed to decode
C28_Witness ==
    /\ r_sent # <<>>
    /\ r_future.done
    /\ r_hist.resolved_by = "timer"
    /\ r_response_count = 1
    /\ ProtocolError \in r_hist.raised
    /\ "IndexError" \in r_hist.raised

\* C29: when two operations on the same station run concurrently without a
\* supplied session, in any interleaving each opens its own session object,
\* each closes only the session it opened, every opened session is closed
\* exactly once, and no session is used by one operation after the other
\* closed it. Sessions are numbered as they are made, so an operation that is
\* over overlapped with a running one that made its session earlier.
InFlight(c) == callers[c].pc \notin {"idle", "done"}

Concurrent(c, d) ==
    /\ c # d
    /\ callers[c].supplied = NoSession /\ callers[d].supplied = NoSession
    /\ callers[c].opened # NoSession /\ callers[d].opened # NoSession
    /\ InFlight(d)
    /\ InFlight(c) \/ (callers[c].pc = "done" /\ callers[d].opened < callers[c].opened)

OwnSessions(c, d) ==
    /\ callers[c].opened # callers[d].opened
    /\ \A k \in 1..Len(callers[c].trace) :
          callers[c].trace[k].ev \in {"connect", "send", "close"}
          => callers[c].trace[k].on = callers[c].opened
    /\ InScope(c) => /\ callers[c].cur = callers[c].opened
                     /\ sessions[callers[c].cur].state = "connected"
    /\ InScope(d) => /\ callers[d].cur = callers[d].opened
                     /\ sessions[callers[d].cur].state = "connected"
    /\ sessions[callers[c].opened].closes <= 1

C29_ConcurrentAcquisitionsIsolated ==
    \A c \in Callers, d \in Callers :
        Concurrent(c, d)
        => /\ OwnSessions(c, d)
           /\ callers[c].pc = "done" => sessions[callers[c].opened].closes = 1

\* C30: remote discovery ignores a response of any type other than
\* LOOKUP_ADDR and local discovery one of any type other than
\* LOCAL_LOOKUP_RESP: the datagram leaves the candidate list, the response
\* count and the resolution state unchanged, so a LOCAL_LOOKUP_RESP never
\* counts toward the two responses that complete the remote lookup.
OtherResponse(data, expected) ==
    decode(data).ok /\ decode(data).msg_type # expected

C30_OtherTypesIgnored ==
    /\ [][(r_hist'.last.n # r_hist.last.n
              /\ OtherResponse(r_hist'.last.data, LOOKUP_ADDR))
          => /\ r_hist'.last.error = "none"
             /\ UNCHANGED <<r_addresses, r_response_count, r_future>>
             /\ r_hist'.resolved_by = r_hist.resolved_by]_vars
    /\ [][(l_hist'.last.n # l_hist.last.n
              /\ OtherResponse(l_hist'.last.data, LOCAL_LOOKUP_RESP))
          => /\ l_hist'.last.error = "none"
             /\ UNCHANGED <<l_addresses, l_future>>
             /\ l_hist'.resolved_by = l_hist.resolved_by]_vars
    /\ [](r_hist.resolved_by = "responses" => Len(r_hist.received) >= ExpectedResponses)

\* C30 witness: a remote lookup with one candidate got a LOCAL_LOOKUP_RESP
\* and still waits for its second response
C30_Witness ==
    /\ r_hist.last.data = LocalLookupRespDatagram
    /\ r_hist.last.error = "none"
    /\ r_response_count = 1
    /\ Len(r_addresses) = 1
    /\ ~r_future.done

\* C31: once a discovery lookup has resolved, the candidate list held by its
\* result never changes: a datagram that arrives after the resolution (a
\* third LOOKUP_ADDR, a LOOKUP_ADDR after the timer fired, a second
\* LOCAL_LOOKUP_RESP) does not add to or alter the list the caller received.
C31_ResolvedListIsFrozen ==
    [][/\ r_future.done => (r_future'.done /\ RemoteResult' = RemoteResult)
       /\ l_future.done => (l_future'.done /\ LocalResult' = LocalResult)]_vars

\* C32: a remote lookup that has received fewer than 2 LOOKUP_ADDR responses
\* is never resolved before the timer fires, and at the moment of resolution
\* the result holds at most 2 candidates, in arrival order, one per
\* LOOKUP_ADDR response received so far.
C32_ResolutionHoldsResponsesSoFar ==
    /\ []((Len(r_hist.received) < 2 /\ r_timer # "fired") => ~r_future.done)
    /\ [][(~r_future.done /\ r_future'.done)
          => /\ Len(RemoteResult') <= 2
             /\ RemoteResult' = r_hist'.received
             /\ r_hist'.resolved_by = "responses" => Len(r_hist'.received) = 2
             /\ r_hist'.resolved_by = "timer" => r_timer' = "fired"]_vars

\* C32 witness: the timer resolved a lookup that had one response, and the
\* result is that one candidate
C32_Witness ==
    /\ r_hist.resolved_by = "timer"
    /\ Len(r_hist.received) = 1
    /\ r_hist.snapshot = r_hist.received
    /\ RemoteResult = r_hist.received

\* C33: subscribe(callback) only registers the callback: it does not invoke
\* it, and it returns a function that removes exactly that callback from the
\* listener list when called; a callback is invoked only by dispatch.
C33_SubscribeOnlyRegisters ==
    /\ u_event.op = "subscribe"
       => /\ u_event.called = <<>>
          /\ u_event.returned = "remove_callback"
          /\ u_listeners[Len(u_listeners)] = u_event.cb
    /\ u_event.called # <<>> => u_event.op = "stations"

\* C34: one dispatch invokes every callback that is registered when the
\* dispatch starts exactly once, in registration order, even when a callback
\* unsubscribes itself or another callback while the dispatch is running.
C34_DispatchCallsEachOnce ==
    (u_event.op = "stations" /\ u_event.error = "none")
    => /\ Len(u_event.called) = Len(u_event.listeners)
       /\ \A k \in 1..Len(u_event.called) :
             /\ u_event.called[k].cb = u_event.listeners[k]
             /\ u_event.called[k].arg = "api"

\* C36: a call to request raises InvalidCredentialsError("Token failed
\* multiple times") only after a re-authentication was attempted on behalf of
\* that same call; the retry flag an earlier failed call left set never makes
\* a call fail on its own first 401.
TokenFailedMultipleTimes(call) ==
    /\ call.outcome = "InvalidCredentialsError"
    /\ call.responses # <<>>
    /\ Mentions401(call.responses[Len(call.responses)])

C36_FailsOnlyAfterOwnReauthentication ==
    \A t \in ApiTasks :
        TokenFailedMultipleTimes(a_call[t]) => a_call[t].reauths >= 1

\* C35: after the first successful login, no request to an endpoint other
\* than the login endpoint is sent without an auth token, in any interleaving
\* of concurrent calls of request, including a call that starts while
\* another call is refreshing an expired token.
C35_DataRequestsCarryToken ==
    \A t \in ConcurrentTasks :
        \A i \in 1..Len(a_call[t].sent) :
            a_call[t].sent[i].endpoint # LoginEndpoint
            => a_call[t].sent[i].token # NoToken

====
